---- MODULE Spec2Model ----
(***************************************************************************)
(* A model of two cores of the repository:                                 *)
(*   - the tiered entity cache of caching_ext (get_or_fill, fill_cache),   *)
(*     src/eden/mononoke/common/rust/caching_ext/src/lib.rs                *)
(*   - the Git delta generator of git_types,                               *)
(*     src/eden/mononoke/git/git_types/src/delta.rs                        *)
(***************************************************************************)
EXTENDS Integers, Sequences, FiniteSets, TLC

(***************************************************************************)
(* The cache: keys, entities, store configuration.                         *)
(***************************************************************************)
Keys == {"key0", "key1"}
\* The callers: tasks that call get_or_fill or fill_cache.  Solo is the
\* caller of the runs in which one call is in flight at a time.
Callers == {1, 2}
Solo == {1}

NoValue == "none"

\* Entities.  e0, e1 are small entities cached without a TTL (the TestEntity
\* values of the tests), eTtl is cached with a TTL (a draft Phase), eIgn is
\* an entity the store refuses to cache, eBig is an entity whose serialized
\* form is as long as the shared tier's ceiling.
Values == {"e0", "e1", "eTtl", "eIgn", "eBig"}

\* The ceiling of a shared-tier value.  The number lives in the memcache
\* crate; lengths in this model are scaled to it.
MEMCACHE_VALUE_MAX_SIZE == 4

\* EntityStore::cache_determinator
cache_determinator(v) ==
    CASE v = "eIgn" -> "Ignore"
      [] v = "eTtl" -> "Ttl"
      [] OTHER      -> "NoTtl"

\* The TTL of the phases store's draft entries, in seconds.
TTL_DRAFT_SEC == 21600

\* The d of a disposition Cache(Ttl(d)); 0 stands for Cache(NoTtl) and Ignore.
ttl_of(v) == IF cache_determinator(v) = "Ttl" THEN TTL_DRAFT_SEC ELSE 0

\* MemcacheEntity::serialize: the bytes of the entity.  A blob is a sequence
\* of bytes; the first byte names the entity, the rest is its payload.
EntityTag(v) ==
    CASE v = "e0" -> 0 [] v = "e1" -> 1 [] v = "eTtl" -> 2
      [] v = "eIgn" -> 3 [] OTHER -> 4

PayloadLen(v) == IF v = "eBig" THEN MEMCACHE_VALUE_MAX_SIZE - 1 ELSE 0

serialize(v) == <<EntityTag(v)>> \o [i \in 1..PayloadLen(v) |-> 255]

\* Bytes no entity serializes to (another schema's entry under the same key).
Garbage == <<255>>

\* MemcacheEntity::deserialize: Err(()) is modelled as NoValue.
deserialize(bytes) ==
    IF \E v \in Values : serialize(v) = bytes
    THEN CHOOSE v \in Values : serialize(v) = bytes
    ELSE NoValue

\* An entry of the shared tier: the bytes and the TTL they were set with (0
\* when set without one).
McEntry(bytes, ttl) == [bytes |-> bytes, ttl |-> ttl]

\* No entry under a key of the shared tier (memcache.get returns Ok(None)).
NoEntry == McEntry(<<>>, 0)

EmptyMap == [k \in Keys |-> NoValue]

\* HashMap::extend: the entries of m2 replace those of m1.
Extend(m1, m2) == [k \in Keys |-> IF m2[k] # NoValue THEN m2[k] ELSE m1[k]]

MapKeys(m) == {k \in Keys : m[k] # NoValue}

VARIABLES
    db,         \* TestStore.data: the backing store, key -> entity
    spawn,      \* EntityStore::spawn_memcache_writes()
    cachelib,   \* the fast tier: key -> entity
    memcache,   \* the shared tier: key -> McEntry
    bg,         \* shared-tier writes handed to tokio::task::spawn, not yet done
    call,       \* per caller: the get_or_fill / fill_cache call in flight
    steady,     \* nothing disturbed the tiers since the call in flight began
    base_object,  \* DeltaInstructions.base_object
    new_object,   \* DeltaInstructions.new_object
    sink,         \* the FallibleDeltaInstructions the diff engine reports to
    engine,       \* how far the diff engine has reported: <<in base, in new>>
    phase,        \* none | diff | generated | written | encoded | applied
    encoded,      \* the bytes write_instructions has written
    recreated,    \* what the decoder made of them
    reported,     \* what a diff engine that may be faulty has reported so far
    arg,          \* the argument of a constructor or codec call
    outcome,      \* what that call returned
    out_writes,   \* the buffers handed to out.write_all, call by call
    rate_limits,  \* MononokeRateLimitConfig.rate_limits
    check         \* the check_rate_limit call in flight

cacheVars == <<db, spawn, cachelib, memcache, bg, call, steady>>

deltaVars == <<base_object, new_object, sink, engine, phase, encoded, recreated,
               reported, arg, outcome, out_writes>>

rateVars == <<rate_limits, check>>

vars == <<db, spawn, cachelib, memcache, bg, call, steady,
          base_object, new_object, sink, engine, phase, encoded, recreated,
          reported, arg, outcome, out_writes, rate_limits, check>>

\* No call of check_rate_limit.  `visits` tells, limit by limit, what the
\* loop met; `logged` are the reasons logged for limits that are tracked.
IdleCheck ==
    [pc |-> "idle", metric |-> "none", i |-> 1, result |-> "none",
     reason |-> <<>>, visits |-> <<>>, logged |-> <<>>]

\* The rate limiter at rest, with no limit configured.
RateIdle ==
    /\ rate_limits = <<>>
    /\ check = IdleCheck

IdleCall ==
    [ pc        |-> "idle",     \* idle | mc_get | db | mc_write | done
      op        |-> "none",     \* get_or_fill | fill_cache
      keys      |-> {},         \* the keys requested
      ret       |-> EmptyMap,   \* the map under construction / returned
      result    |-> "none",     \* Ok | ErrCachelib | ErrStore
      fault     |-> "none",     \* the failed operation that ended the call, if any
      clGets    |-> 0,          \* fast-tier gets of this call
      clVal     |-> EmptyMap,   \* what the fast tier returned
      clFailed  |-> {},         \* keys whose fast-tier write failed
      mcPending |-> {},         \* shared-tier gets not yet completed
      mcRes     |-> [k \in Keys |-> "none"],  \* outcome of each shared-tier get
      mcVal     |-> EmptyMap,   \* entity of each shared-tier hit
      mcGets    |-> 0,          \* shared-tier gets of this call
      mcProbed  |-> {},         \* keys whose shared-tier get was issued
      mcSaw     |-> [k \in Keys |-> <<>>],  \* bytes the shared tier held when probed
      wrFailed  |-> {},         \* keys whose awaited shared-tier write failed
      reports   |-> 0,          \* report_mc_result invocations of this call
      dbCalls   |-> 0,          \* get_from_db invocations of this call
      dbArg     |-> {},         \* the argument of get_from_db
      data      |-> EmptyMap,   \* what get_from_db returned
      wr        |-> {},         \* awaited shared-tier writes not yet completed
      clWrites  |-> {},         \* keys written to the fast tier by this call
      mcWrites  |-> {},         \* keys submitted to the shared tier by this call
      prevRet   |-> EmptyMap,   \* the map of the previous get_or_fill of these keys
      hasPrev   |-> FALSE,      \*   and whether there was one, undisturbed
      given     |-> EmptyMap,   \* the pairs handed to fill_cache
      prevFill  |-> EmptyMap,   \* the pairs of the fill_cache just before, none failing
      prevMc    |-> EmptyMap,   \* the shared-tier hits of the get_or_fill just before
      prevCl    |-> {} ]        \*   and those it wrote to the fast tier (for keys asked again)

(***************************************************************************)
(* The tiers' handlers and the helpers of get_or_fill.  Both tiers are     *)
(* indexed here by the logical key: get_cache_key and KeyGen::key are      *)
(* injective renamings of it.                                              *)
(***************************************************************************)

\* CachelibHandler::get_multiple_from_cachelib: the entries found for `keys`;
\* the keys not found are the misses.
get_multiple_from_cachelib(cl, keys) ==
    [k \in Keys |-> IF k \in keys THEN cl[k] ELSE NoValue]

\* Mutant: the shared tier is probed for every key requested.
to_fetch_from_memcache_All(keys, hits) == keys

\* get_or_fill, lines 120-126: the keys whose shared-tier get is issued.
to_fetch_from_memcache(keys, hits) == keys \ MapKeys(hits)

\* The classification of one shared-tier get (get_multiple_from_memcache,
\* lines 243-250): `failed` is memcache.get returning Err(()), `entry` is the
\* entry read otherwise.
McClassify(failed, entry) ==
    IF failed THEN "MemcacheInternal"
    ELSE IF entry = NoEntry THEN "Missing"
    ELSE IF deserialize(entry.bytes) = NoValue THEN "Deserialization"
    ELSE "Hit"

\* Mutant: only the gets that did not hit are reported.
ReportedKeys_Errors(probed, mcRes) == {k \in probed : mcRes[k] # "Hit"}

\* get_multiple_from_memcache, line 263: V::report_mc_result(&res) is called
\* for every entry joined, whatever its result.
ReportedKeys(probed, mcRes) == probed

\* Mutant: the shared-tier hits are left to fetch as well.
left_to_fetch_All(probed, mcRes) == probed

\* Mutant: only the keys the shared tier reported missing are left to fetch.
left_to_fetch_OnlyMissing(probed, mcRes) == {k \in probed : mcRes[k] = "Missing"}

\* get_multiple_from_memcache, lines 262-273: the keys left to fetch are
\* those whose result is an Err.
left_to_fetch(probed, mcRes) == {k \in probed : mcRes[k] # "Hit"}

\* Mutant: the results are taken up while gets are still in flight.
Joinable_Any(pending) == TRUE

\* future::join_all(mc_fetch_futs).await returns: every get has completed.
Joinable(pending) == pending = {}

\* Mutant: the disposition is not consulted.
Cacheable_All(m) == m

\* The filter on cache_determinator (lines 136-139 and 207-211): the entries
\* whose disposition is Cache(ttl).
Cacheable(m) ==
    [k \in Keys |-> IF m[k] # NoValue /\ cache_determinator(m[k]) # "Ignore"
                    THEN m[k] ELSE NoValue]

\* Mutant: no entry is handed to set_cached.
CachelibSets_None(m) == {}

\* Mutant: set_cached is called whatever the TTL.
CachelibSets_All(m) == MapKeys(m)

\* fill_multiple_cachelib: the keys for which set_cached is called.
CachelibSets(m) == {k \in MapKeys(m) : cache_determinator(m[k]) = "NoTtl"}

\* Mutant: the fill leaves the fast tier as it is.
fill_multiple_cachelib_Nothing(cl, m, failed) == cl

\* fill_multiple_cachelib: the fast tier after the fill; `failed` are the
\* keys whose set_cached returned an error, which is ignored.
fill_multiple_cachelib(cl, m, failed) ==
    [k \in Keys |-> IF k \in CachelibSets(m) \ failed THEN m[k] ELSE cl[k]]

\* Mutant: every entry is written with set, its TTL dropped.
MemcacheTtl_Dropped(v) == 0

\* fill_multiple_memcache, lines 316-323: the TTL an entry is written with;
\* 0 stands for set, d > 0 for set_with_ttl(d).
MemcacheTtl(v) == ttl_of(v)

\* Mutant: only an entry whose bytes exceed the ceiling is skipped.
MemcacheSets_Over(m) ==
    { [key |-> k, bytes |-> serialize(m[k]),
       ttl |-> MemcacheTtl(m[k])] :
         k \in {x \in MapKeys(m) : Len(serialize(m[x])) <= MEMCACHE_VALUE_MAX_SIZE} }

\* Mutant: nothing is submitted to the shared tier.
MemcacheSets_None(m) == {}

\* fill_multiple_memcache, lines 306-327: the writes that are built; an entry
\* whose bytes reach the ceiling is skipped.
MemcacheSets(m) ==
    { [key |-> k, bytes |-> serialize(m[k]),
       ttl |-> MemcacheTtl(m[k])] :
         k \in {x \in MapKeys(m) : Len(serialize(m[x])) < MEMCACHE_VALUE_MAX_SIZE} }

\* Mutant: the entry is written under another key.
MemcacheSet_OtherKey(mc, w) ==
    [mc EXCEPT ![CHOOSE k \in Keys : k # w.key] = McEntry(w.bytes, w.ttl)]

\* MemcacheHandler::set / set_with_ttl
MemcacheSet(mc, w) == [mc EXCEPT ![w.key] = McEntry(w.bytes, w.ttl)]

\* Mutant: the writes are spawned whatever the flag.
WritesSpawned_Always(flag) == TRUE

\* Mutant: the writes are awaited whatever the flag.
WritesSpawned_Never(flag) == FALSE

\* fill_multiple_memcache, lines 329-335: `if spawn` the future of the writes
\* is handed to tokio::task::spawn, else it is awaited.
WritesSpawned(flag) == flag

\* Mutant: the error of a failed set_cached is propagated.
FillCachelibResult_Escalate(failed) == IF failed = {} THEN "Ok" ELSE "Err"

\* fill_multiple_cachelib, lines 284-296: the function returns (); the error
\* of a failed set_cached is dropped by `let _ =`.
FillCachelibResult(failed) == "Ok"

\* Mutant: the shared-tier hits are not added to the map.
ResultAfterMemcache_Dropped(ret, fetched) == ret

\* get_or_fill, line 142: the shared-tier hits are added to the map.
ResultAfterMemcache(ret, fetched) == Extend(ret, fetched)

\* Mutant: requests are coalesced: the store is not asked while another
\* call is asking it.
StoreLookupNeeded_Coalesced(toFetch) ==
    toFetch # {} /\ ~\E c \in Callers : call[c].pc = "db"

\* Mutant: get_from_db is invoked whatever is left to fetch.
StoreLookupNeeded_Always(toFetch) == TRUE

\* get_or_fill, line 156: whether get_from_db is invoked.
StoreLookupNeeded(toFetch) == toFetch # {}

\* TestStore::get_from_db, lines 418-424: the entries the store has.
get_from_db(store, keys) ==
    [k \in Keys |-> IF k \in keys THEN store[k] ELSE NoValue]

\* Mutant: no entry is recorded in key_mapping.
key_mapping_Empty(to_fetch_from_store) == {}

\* key_mapping (lines 147-154): the keys that have an entry, one for each
\* key handed to get_from_db.
key_mapping(to_fetch_from_store) == to_fetch_from_store

\* key_mapping.remove(&key).expect(..) (lines 165-167) fails: the call
\* panics while the tiers are being filled.
KeyMappingPanic(rec) ==
    [rec EXCEPT !.pc = "done", !.result = "Panic", !.fault = "key_mapping",
                !.ret = EmptyMap]

\* Mutant: the store's error is swallowed and the partial map returned.
StoreErrorReturn_Partial(rec) == [rec EXCEPT !.pc = "done", !.result = "Ok"]

\* What get_or_fill returns when get_from_db fails (line 160): the error,
\* and no map.
StoreErrorReturn(rec) ==
    [rec EXCEPT !.pc = "done", !.result = "ErrStore", !.ret = EmptyMap]

\* Mutant: a failed fast-tier read is taken for a miss of every key.
CachelibErrorReturn_AsMiss(rec) ==
    [rec EXCEPT !.pc = "mc_get", !.mcPending = rec.keys]

\* What get_or_fill returns when the fast-tier read fails (line 116).
CachelibErrorReturn(rec) ==
    [rec EXCEPT !.pc = "done", !.result = "ErrCachelib", !.ret = EmptyMap]

\* Every entry of the tiers, and every write in flight, is the store's.
Coherent ==
    /\ \A k \in Keys : cachelib[k] # NoValue => cachelib[k] = db[k]
    /\ \A k \in Keys : memcache[k] # NoEntry =>
           db[k] # NoValue /\ memcache[k].bytes = serialize(db[k])
    /\ \A w \in bg : db[w.key] # NoValue /\ w.bytes = serialize(db[w.key])
    /\ \A c \in Callers : \A w \in call[c].wr :
           db[w.key] # NoValue /\ w.bytes = serialize(db[w.key])

Busy(c) == call[c].pc \notin {"idle", "done"}

\* A call that has returned is looked at (its record is the outcome the
\* claims speak of) before anything else moves: the caller goes on with its
\* next call, or drops the outcome.
Observed == \A c \in Callers : call[c].pc # "done"

\* No call is in flight and no outcome is pending: the tiers lose or gain
\* entries between calls.
Quiet == \A c \in Callers : call[c].pc = "idle"

\* `steady` after a disturbance: it matters only while a call is in flight.
Undisturbed == IF \E c \in Callers : Busy(c) THEN FALSE ELSE steady

\* No change reported yet.  `fault` tells whether a change has begun before
\* the position the sink had processed, `held` the length of the program
\* and the cursor of the sink at that moment, `later` the changes reported
\* since.
NoReports ==
    [count |-> 0, empty_after |-> FALSE, fault |-> FALSE,
     held |-> <<0, 0>>, later |-> 0]

\* No call of a constructor or of the size codec.
NoArg == [fn |-> "none", a |-> 0, b |-> 0]

NoOut ==
    [done |-> FALSE,
     ins |-> [type |-> "Err", bytes |-> <<>>, base_offset |-> 0, size |-> 0],
     bytes |-> <<>>]

\* The delta generator at rest.
DeltaIdle ==
    /\ base_object = <<>>
    /\ new_object = <<>>
    /\ sink = [valid |-> TRUE, instructions |-> <<>>, processed_till |-> 0]
    /\ engine = <<0, 0>>
    /\ phase = "none"
    /\ encoded = <<>>
    /\ recreated = [panic |-> FALSE, target |-> <<>>]
    /\ reported = NoReports
    /\ arg = NoArg
    /\ outcome = NoOut
    /\ out_writes = <<>>

\* TestStore::new, with some backing data.
Init ==
    /\ db \in {d \in [Keys -> Values \cup {NoValue}] :
                  /\ d["key0"] \in {NoValue, "e0", "eTtl", "eIgn", "eBig"}
                  /\ d["key1"] = "e1"}
    /\ spawn \in BOOLEAN
    /\ cachelib = EmptyMap
    /\ memcache = [k \in Keys |-> NoEntry]
    /\ bg = {}
    /\ call = [c \in Callers |-> IdleCall]
    /\ steady = TRUE
    /\ DeltaIdle
    /\ RateIdle

(***************************************************************************)
(* get_or_fill                                                             *)
(***************************************************************************)

\* The record of a call that begins: the map of the caller's previous call
\* is kept for comparison when that call was a get_or_fill of the same keys
\* that succeeded and nothing disturbed the tiers since it began.
Begin(old, op, keys) ==
    LET kept == /\ old.pc = "done" /\ old.op = "get_or_fill" /\ old.result = "Ok"
                /\ op = "get_or_fill" /\ old.keys = keys /\ steady
        filled == /\ old.pc = "done" /\ old.op = "fill_cache" /\ old.keys = keys
                  /\ op = "get_or_fill"
                  /\ old.clFailed = {} /\ old.wrFailed = {}
        follows == /\ old.pc = "done" /\ old.op = "get_or_fill" /\ old.result = "Ok"
                   /\ op = "get_or_fill"
    IN [IdleCall EXCEPT !.op = op, !.keys = keys,
                        !.hasPrev = kept,
                        !.prevRet = IF kept THEN old.ret ELSE EmptyMap,
                        !.prevFill = IF filled THEN old.given ELSE EmptyMap,
                        !.prevMc = [k \in Keys |->
                                      IF follows /\ k \in keys THEN old.mcVal[k]
                                      ELSE NoValue],
                        !.prevCl = IF follows
                                   THEN old.clWrites \cap keys \cap MapKeys(old.mcVal)
                                   ELSE {}]

\* get_or_fill, lines 103-126: the fast tier is read for every key (a
\* synchronous batch, which may fail as a whole); the keys it missed are
\* handed to the shared tier.
GetOrFillStart(c, keys, fail) ==
    /\ ~Busy(c)
    /\ LET rec == Begin(call[c], "get_or_fill", keys)
           hits == get_multiple_from_cachelib(cachelib, keys)
           miss == to_fetch_from_memcache(keys, hits)
       IN IF fail
          THEN /\ keys # {}
               /\ \E n \in 1..Cardinality(keys) :
                     call' = [call EXCEPT ![c] =
                                CachelibErrorReturn([rec EXCEPT !.clGets = n,
                                                        !.fault = "cachelib_read"])]
               /\ steady' = FALSE
          ELSE /\ call' = [call EXCEPT ![c] =
                             [rec EXCEPT !.pc = "mc_get",
                                         !.clGets = Cardinality(keys),
                                         !.clVal = hits,
                                         !.ret = Extend(rec.ret, hits),
                                         !.mcPending = miss]]
               /\ steady' = Coherent
    /\ UNCHANGED <<db, spawn, cachelib, memcache, bg>>
    /\ UNCHANGED deltaVars
    /\ UNCHANGED rateVars

\* One of the concurrent shared-tier gets completes
\* (get_multiple_from_memcache, lines 242-253).
McGet(c, k, fail) ==
    /\ call[c].pc = "mc_get"
    /\ k \in call[c].mcPending
    /\ steady' = (steady /\ ~fail)
    /\ LET rec == call[c]
           res == McClassify(fail, memcache[k])
       IN call' = [call EXCEPT ![c] =
              [rec EXCEPT !.mcPending = rec.mcPending \ {k},
                          !.mcGets = rec.mcGets + 1,
                          !.mcProbed = rec.mcProbed \cup {k},
                          !.mcSaw = [rec.mcSaw EXCEPT ![k] = memcache[k].bytes],
                          !.mcRes = [rec.mcRes EXCEPT ![k] = res],
                          !.mcVal = [rec.mcVal EXCEPT ![k] =
                                       IF res = "Hit"
                                       THEN deserialize(memcache[k].bytes)
                                       ELSE NoValue]]]
    /\ UNCHANGED <<db, spawn, cachelib, memcache, bg>>
    /\ UNCHANGED deltaVars
    /\ UNCHANGED rateVars

\* The gets are joined (line 257); every result is reported, the hits whose
\* disposition is Cache(..) are written to the fast tier (lines 132-140) and
\* added to the map; the call returns when nothing is left for the store
\* (line 156), else get_from_db is invoked.
McJoin(c) ==
    /\ call[c].pc = "mc_get"
    /\ Joinable(call[c].mcPending)
    /\ LET rec == call[c]
           items == Cacheable(rec.mcVal)
           left == left_to_fetch(rec.mcProbed, rec.mcRes)
       IN \E failed \in SUBSET CachelibSets(items) :
            /\ cachelib' = fill_multiple_cachelib(cachelib, items, failed)
            /\ steady' = (steady /\ failed = {})
            /\ LET r1 == [rec EXCEPT !.reports =
                                        Cardinality(ReportedKeys(rec.mcProbed, rec.mcRes)),
                                     !.clWrites = CachelibSets(items) \ failed,
                                     !.clFailed = failed]
               IN call' = [call EXCEPT ![c] =
                    IF FillCachelibResult(failed) # "Ok"
                    THEN CachelibErrorReturn(r1)
                    ELSE [r1 EXCEPT !.ret = ResultAfterMemcache(rec.ret, rec.mcVal),
                             !.dbArg = left,
                             !.pc = IF StoreLookupNeeded(left) THEN "db" ELSE "done",
                             !.result = IF StoreLookupNeeded(left) THEN "none" ELSE "Ok"]]
    /\ UNCHANGED <<db, spawn, memcache, bg>>
    /\ UNCHANGED deltaVars
    /\ UNCHANGED rateVars

\* fill_caches_by_key (lines 198-225) on the entries `m`, for the call `rec`:
\* the fast tier is filled at once; the shared-tier writes are spawned, or
\* awaited by the call.
FillCaches(c, rec, m) ==
    LET items == Cacheable(m)
        writes == MemcacheSets(items)
    IN \E failed \in SUBSET CachelibSets(items) :
         /\ cachelib' = fill_multiple_cachelib(cachelib, items, failed)
         /\ steady' = (steady /\ failed = {} /\ rec.op = "get_or_fill")
         /\ bg' = IF WritesSpawned(spawn) THEN bg \cup writes ELSE bg
         /\ LET r1 == [rec EXCEPT !.clWrites = rec.clWrites \cup (CachelibSets(items) \ failed),
                                  !.clFailed = rec.clFailed \cup failed,
                                  !.mcWrites = {w.key : w \in writes}]
            IN call' = [call EXCEPT ![c] =
                 IF FillCachelibResult(failed) # "Ok"
                 THEN CachelibErrorReturn(r1)
                 ELSE IF WritesSpawned(spawn) \/ writes = {}
                 THEN [r1 EXCEPT !.pc = "done", !.result = "Ok",
                                 !.ret = Extend(r1.ret, r1.data)]
                 ELSE [r1 EXCEPT !.pc = "mc_write", !.wr = writes]]

\* get_from_db returns (lines 157-175): an error ends the call; the entries
\* returned are written to both tiers and added to the map.
DbReturn(c, fail) ==
    /\ call[c].pc = "db"
    /\ LET rec == [call[c] EXCEPT !.dbCalls = call[c].dbCalls + 1]
       IN IF fail
          THEN /\ steady' = FALSE
               /\ call' = [call EXCEPT ![c] =
                             StoreErrorReturn([rec EXCEPT !.fault = "store"])]
               /\ UNCHANGED <<cachelib, bg>>
          ELSE LET data == get_from_db(db, rec.dbArg)
               IN IF MapKeys(data) \subseteq key_mapping(rec.dbArg)
                  THEN FillCaches(c, [rec EXCEPT !.data = data], data)
                  ELSE /\ steady' = FALSE
                       /\ call' = [call EXCEPT ![c] =
                                     KeyMappingPanic([rec EXCEPT !.data = data])]
                       /\ UNCHANGED <<cachelib, bg>>
    /\ UNCHANGED <<db, spawn, memcache>>
    /\ UNCHANGED deltaVars
    /\ UNCHANGED rateVars

\* One awaited shared-tier write completes (lines 315-326, 334); its failure
\* is ignored.  The call returns after the last one.
McWrite(c, w, fail) ==
    /\ call[c].pc = "mc_write"
    /\ w \in call[c].wr
    /\ steady' = (steady /\ ~fail)
    /\ memcache' = IF fail THEN memcache ELSE MemcacheSet(memcache, w)
    /\ LET rec == [call[c] EXCEPT !.wr = call[c].wr \ {w},
                                  !.wrFailed = IF fail THEN call[c].wrFailed \cup {w.key}
                                               ELSE call[c].wrFailed]
       IN call' = [call EXCEPT ![c] =
            IF rec.wr = {}
            THEN [rec EXCEPT !.pc = "done", !.result = "Ok",
                             !.ret = Extend(rec.ret, rec.data)]
            ELSE rec]
    /\ UNCHANGED <<db, spawn, cachelib, bg>>
    /\ UNCHANGED deltaVars
    /\ UNCHANGED rateVars

\* One spawned shared-tier write completes (line 332).
BgWrite(w, fail) ==
    /\ Observed
    /\ w \in bg
    /\ steady' = IF fail THEN Undisturbed ELSE steady
    /\ memcache' = IF fail THEN memcache ELSE MemcacheSet(memcache, w)
    /\ bg' = bg \ {w}
    /\ UNCHANGED <<db, spawn, cachelib, call>>
    /\ UNCHANGED deltaVars
    /\ UNCHANGED rateVars

\* The caller drops the outcome of its last call.
Forget(c) ==
    /\ call[c].pc = "done"
    /\ call' = [call EXCEPT ![c] = IdleCall]
    /\ steady' = TRUE
    /\ UNCHANGED <<db, spawn, cachelib, memcache, bg>>
    /\ UNCHANGED deltaVars
    /\ UNCHANGED rateVars

(***************************************************************************)
(* fill_cache                                                              *)
(***************************************************************************)

\* The pairs given to fill_cache: the store's entry of a key (the pair a
\* write path has just committed), or an entity that is not the store's.
FillInputs ==
    {<<k, db[k]>> : k \in MapKeys(db)} \cup {<<"key0", "e1">>}

\* fill_cache (lines 180-196) with one pair (k, v).
FillCache(c, k, v) ==
    /\ ~Busy(c)
    /\ LET m == [EmptyMap EXCEPT ![k] = v]
           rec == [Begin(call[c], "fill_cache", {k}) EXCEPT !.given = m]
       IN FillCaches(c, rec, m)
    /\ UNCHANGED <<db, spawn, memcache>>
    /\ UNCHANGED deltaVars
    /\ UNCHANGED rateVars

(***************************************************************************)
(* The environment: the tiers are lossy, and the shared tier is shared.    *)
(***************************************************************************)

\* The fast tier is dropped (the tests' `store.cachelib = create_mock()`).
DropCachelib ==
    /\ Quiet
    /\ cachelib # EmptyMap
    /\ cachelib' = EmptyMap
    /\ UNCHANGED <<db, spawn, memcache, bg, call, steady>>
    /\ UNCHANGED deltaVars
    /\ UNCHANGED rateVars

\* The shared tier evicts an entry, or its TTL expires.
EvictMemcache(k) ==
    /\ Quiet
    /\ memcache[k] # NoEntry
    /\ memcache' = [memcache EXCEPT ![k] = NoEntry]
    /\ UNCHANGED <<db, spawn, cachelib, bg, call, steady>>
    /\ UNCHANGED deltaVars
    /\ UNCHANGED rateVars

\* Another writer leaves bytes under the key that do not decode.
ForeignWrite(k) ==
    /\ Quiet
    /\ memcache' = [memcache EXCEPT ![k] = McEntry(Garbage, 0)]
    /\ UNCHANGED <<db, spawn, cachelib, bg, call, steady>>
    /\ UNCHANGED deltaVars
    /\ UNCHANGED rateVars

Next ==
    \/ \E c \in Solo, keys \in SUBSET Keys, fail \in BOOLEAN :
          GetOrFillStart(c, keys, fail)
    \/ \E c \in Solo, k \in Keys, fail \in BOOLEAN : McGet(c, k, fail)
    \/ \E c \in Solo : McJoin(c)
    \/ \E c \in Solo : Forget(c)
    \/ \E c \in Solo, fail \in BOOLEAN : DbReturn(c, fail)
    \/ \E c \in Solo, fail \in BOOLEAN : \E w \in call[c].wr : McWrite(c, w, fail)
    \/ \E fail \in BOOLEAN : \E w \in bg : BgWrite(w, fail)
    \/ \E c \in Solo : \E p \in FillInputs : FillCache(c, p[1], p[2])
    \/ DropCachelib
    \/ \E k \in Keys : EvictMemcache(k)
    \/ \E k \in Keys : ForeignWrite(k)

Spec == Init /\ [][Next]_vars

\* The pairs given to fill_cache by callers that pass the store's entries.
StoreInputs == {<<k, db[k]>> : k \in MapKeys(db)}

\* The cache with nobody else writing to the shared tier and with fill_cache
\* given the store's entries only: calls, fills, and tiers that lose entries.
CoherentNext ==
    \/ \E c \in Solo, keys \in SUBSET Keys, fail \in BOOLEAN :
          GetOrFillStart(c, keys, fail)
    \/ \E c \in Solo, k \in Keys, fail \in BOOLEAN : McGet(c, k, fail)
    \/ \E c \in Solo : McJoin(c)
    \/ \E c \in Solo : Forget(c)
    \/ \E c \in Solo, fail \in BOOLEAN : DbReturn(c, fail)
    \/ \E c \in Solo, fail \in BOOLEAN : \E w \in call[c].wr : McWrite(c, w, fail)
    \/ \E fail \in BOOLEAN : \E w \in bg : BgWrite(w, fail)
    \/ \E c \in Solo : \E p \in StoreInputs : FillCache(c, p[1], p[2])
    \/ DropCachelib
    \/ \E k \in Keys : EvictMemcache(k)

CoherentSpec == Init /\ [][CoherentNext]_vars

\* The key two tasks ask for at the same time.
RaceKeys == {"key1"}

\* Two tasks call get_or_fill for the same key, their steps interleaved in
\* any order; nothing else touches the tiers.
RaceNext ==
    \/ \E c \in Callers, fail \in BOOLEAN : GetOrFillStart(c, RaceKeys, fail)
    \/ \E c \in Callers, k \in Keys, fail \in BOOLEAN : McGet(c, k, fail)
    \/ \E c \in Callers : McJoin(c)
    \/ \E c \in Callers : Forget(c)
    \/ \E c \in Callers, fail \in BOOLEAN : DbReturn(c, fail)
    \/ \E c \in Callers, fail \in BOOLEAN : \E w \in call[c].wr : McWrite(c, w, fail)
    \/ \E fail \in BOOLEAN : \E w \in bg : BgWrite(w, fail)

RaceSpec == Init /\ [][RaceNext]_vars

(***************************************************************************)
(* The Git delta generator (git_types/src/delta.rs).                       *)
(*                                                                         *)
(* An object (the Bytes of the code) is kept run-length encoded: a         *)
(* sequence of runs <<byte, count>>, no run empty, no two neighbours of    *)
(* the same byte.  Every byte sequence has exactly one such form, so       *)
(* equality of objects is equality of byte sequences, and objects longer   *)
(* than MAX_COPY_BYTES stay small.                                         *)
(***************************************************************************)
MAX_DATA_BYTES == 127
MAX_COPY_BYTES == 16777215
COPY_INSTRUCTION == 128
COPY_SPECIAL_SIZE == 65536

\* runs of an object, at most
MaxRuns == 2
\* bytes of the new object one change may cover, at most
MaxChange == 256

ByteValues == {97, 98}
RunLens == {1, MAX_DATA_BYTES + 1, COPY_SPECIAL_SIZE, MAX_COPY_BYTES + 1}

Min(a, b) == IF a < b THEN a ELSE b

RECURSIVE ObjLen(_)
\* Bytes::len
ObjLen(o) == IF o = <<>> THEN 0 ELSE o[1][2] + ObjLen(Tail(o))

\* `n` bytes `b` written after `o`.
Push(o, b, n) ==
    IF n = 0 THEN o
    ELSE IF o # <<>> /\ o[Len(o)][1] = b
         THEN [o EXCEPT ![Len(o)] = <<b, o[Len(o)][2] + n>>]
         ELSE Append(o, <<b, n>>)

RECURSIVE Concat(_, _)
\* write_all: the bytes of `p` written after `o`.
Concat(o, p) ==
    IF p = <<>> THEN o ELSE Concat(Push(o, p[1][1], p[1][2]), Tail(p))

RECURSIVE Drop(_, _)
Drop(o, k) ==
    IF k = 0 \/ o = <<>> THEN o
    ELSE IF k >= o[1][2] THEN Drop(Tail(o), k - o[1][2])
         ELSE <<<<o[1][1], o[1][2] - k>>>> \o Tail(o)

RECURSIVE Take(_, _)
Take(o, k) ==
    IF k = 0 \/ o = <<>> THEN <<>>
    ELSE IF k >= o[1][2] THEN <<o[1]>> \o Take(Tail(o), k - o[1][2])
         ELSE <<<<o[1][1], k>>>>

\* Bytes::slice(from..to), the range being within the object.
Slice(o, from, to) == Take(Drop(o, from), to - from)

RECURSIVE ByteAt(_, _)
\* the byte at 1-based position i
ByteAt(o, i) == IF i <= o[1][2] THEN o[1][1] ELSE ByteAt(Tail(o), i - o[1][2])

\* The bytes of an object one by one, as an instruction's write puts them out.
Expand(o) == [i \in 1..ObjLen(o) |-> ByteAt(o, i)]

RECURSIVE Compress(_)
\* The object made of the bytes `s`.
Compress(s) ==
    IF s = <<>> THEN <<>>
    ELSE IF Len(s) = 1 THEN <<<<s[1], 1>>>>
    ELSE LET half == Len(s) \div 2
         IN Concat(Compress(SubSeq(s, 1, half)), Compress(SubSeq(s, half + 1, Len(s))))

\* The objects of the model: up to MaxRuns runs.
Objects ==
    UNION {{o \in [1..n -> ByteValues \X RunLens] :
               \A i \in 1..(n - 1) : o[i][1] # o[i + 1][1]} : n \in 0..MaxRuns}

\* u32::saturating_add.  The positions of the model's objects stay far below
\* u32::MAX, where the sum saturates.
saturating_add(a, b) == a + b

(***************************************************************************)
(* DeltaInstruction                                                        *)
(***************************************************************************)
Data(bytes) == [type |-> "Data", bytes |-> bytes, base_offset |-> 0, size |-> 0]
Copy(base_offset, size) ==
    [type |-> "Copy", bytes |-> <<>>, base_offset |-> base_offset, size |-> size]

NoInstruction == [type |-> "Err", bytes |-> <<>>, base_offset |-> 0, size |-> 0]

\* DeltaInstruction::from_data
from_data(data) ==
    IF ObjLen(data) > MAX_DATA_BYTES THEN NoInstruction ELSE Data(data)

\* Mutant: a range of exactly MAX_COPY_BYTES bytes is refused too.
from_copy_Strict(start, end) ==
    IF start >= end THEN NoInstruction
    ELSE IF end - start >= MAX_COPY_BYTES THEN NoInstruction
    ELSE Copy(start, end - start)

\* DeltaInstruction::from_copy, on the range start..end
from_copy(start, end) ==
    IF start >= end THEN NoInstruction
    ELSE IF end - start > MAX_COPY_BYTES THEN NoInstruction
    ELSE Copy(start, end - start)

\* Mutant: the most significant byte comes first.
to_le_bytes_Big(n) ==
    <<(n \div 16777216) % 256, (n \div 65536) % 256, (n \div 256) % 256, n % 256>>

\* u32::to_le_bytes
to_le_bytes(n) ==
    <<n % 256, (n \div 256) % 256, (n \div 65536) % 256, (n \div 16777216) % 256>>

\* Mutant: 65536 is encoded like any other size, as the bytes [0, 0, 1].
EncodedCopySize_Plain(size) == size

\* The size a Copy instruction encodes: Git writes no size byte for 65536.
EncodedCopySize(size) == IF size = COPY_SPECIAL_SIZE THEN 0 ELSE size

RECURSIVE BitsToByte(_)
\* the byte whose set bits are `bits`
BitsToByte(bits) ==
    IF bits = {} THEN 0
    ELSE LET b == CHOOSE x \in bits : TRUE IN 2 ^ b + BitsToByte(bits \ {b})

NonZero(byte) == byte # 0

\* DeltaInstruction::write
write(ins) ==
    IF ins.type = "Data"
    THEN <<ObjLen(ins.bytes) % 256>> \o Expand(ins.bytes)
    ELSE LET offset_bytes == to_le_bytes(ins.base_offset)
             size_bytes == to_le_bytes(EncodedCopySize(ins.size))
             all == offset_bytes \o size_bytes
             instruction_byte ==
                 BitsToByte({7} \cup {idx \in 0..7 : all[idx + 1] # 0})
         IN <<instruction_byte>> \o SelectSeq(offset_bytes, NonZero)
                                 \o SelectSeq(size_bytes, NonZero)

\* Mutant: each byte of the instruction is written to `out` on its own.
write_calls_PerByte(ins) == [i \in 1..Len(write(ins)) |-> <<write(ins)[i]>>]

\* The calls of out.write_all that DeltaInstruction::write makes: the bytes
\* are gathered in a buffer, which is written at the end in one call.
write_calls(ins) == <<write(ins)>>

RECURSIVE write_instructions_calls(_)
\* The calls of out.write_all that write_instructions makes: those of each
\* instruction, in the order of the program.
write_instructions_calls(instructions) ==
    IF instructions = <<>> THEN <<>>
    ELSE write_calls(Head(instructions))
            \o write_instructions_calls(Tail(instructions))

RECURSIVE write_instructions(_)
\* DeltaInstructions::write_instructions
write_instructions(instructions) ==
    IF instructions = <<>> THEN <<>>
    ELSE write(Head(instructions)) \o write_instructions(Tail(instructions))

(***************************************************************************)
(* The size codec (write_size) and its reader                              *)
(***************************************************************************)
CONTINUATION_BITMASK == 128
DATA_BITMASK == 127

\* size as u8 & DATA_BITMASK
LowBits(size) == size % (DATA_BITMASK + 1)

\* Mutant: a whole byte of the size is dropped at each step.
ShiftSize_Byte(size) == size \div (2 ^ 8)

\* size >>= 7
ShiftSize(size) == size \div (2 ^ 7)

\* Mutant: the continuation bit is not set.
WithContinuation_Off(byte) == byte

\* byte | CONTINUATION_BITMASK
WithContinuation(byte) ==
    IF byte >= CONTINUATION_BITMASK THEN byte ELSE byte + CONTINUATION_BITMASK

RECURSIVE write_size(_)
\* write_size: the bytes it writes to `out`, the loop unrolled from the byte
\* first captured
write_size(size_to_write) ==
    LET byte == LowBits(size_to_write)
        size == ShiftSize(size_to_write)
    IN IF size # 0
       THEN <<WithContinuation(byte)>> \o write_size(size)
       ELSE <<byte>>

RECURSIVE ReadSizeFrom(_, _, _, _)
\* The reader of a size: 7-bit chunks are accumulated, each shifted by 7
\* bits more than the one before, until a byte with a clear high bit is
\* consumed.  `consumed` is the number of bytes read.
ReadSizeFrom(data, i, shift, acc) ==
    IF i > Len(data) THEN [ok |-> FALSE, value |-> acc, consumed |-> i - 1]
    ELSE LET sum == acc + (data[i] % 128) * (2 ^ shift)
         IN IF data[i] < 128
            THEN [ok |-> TRUE, value |-> sum, consumed |-> i]
            ELSE ReadSizeFrom(data, i + 1, shift + 7, sum)

read_size(data) == ReadSizeFrom(data, 1, 0, 0)

\* The calls of out.write_all that write_size makes: one for each byte.
write_size_calls(size_to_write) ==
    [i \in 1..Len(write_size(size_to_write)) |-> <<write_size(size_to_write)[i]>>]

\* Mutant: the two sizes are written the other way round.
DeltaInstructions_write_Swapped(base, new, instructions) ==
    write_size(ObjLen(new)) \o write_size(ObjLen(base))
        \o write_instructions(instructions)

\* DeltaInstructions::write: the size of the base object, the size of the
\* new object, then the instructions in order
DeltaInstructions_write(base, new, instructions) ==
    write_size(ObjLen(base)) \o write_size(ObjLen(new))
        \o write_instructions(instructions)

(***************************************************************************)
(* FallibleDeltaInstructions: Valid(DeltaInstructions) or Invalid(error)   *)
(***************************************************************************)
NewSink == [valid |-> TRUE, instructions |-> <<>>, processed_till |-> 0]

Invalid(s) == [s EXCEPT !.valid = FALSE]

\* Mutant: the copy is added without moving the cursor.
add_copy_Still(s, start, end) ==
    IF ~s.valid THEN s
    ELSE LET ins == from_copy(start, end)
         IN IF ins.type = "Err" THEN Invalid(s)
            ELSE [s EXCEPT !.instructions = Append(@, ins)]

\* FallibleDeltaInstructions::add_copy
add_copy(s, start, end) ==
    IF ~s.valid THEN s
    ELSE LET ins == from_copy(start, end)
         IN IF ins.type = "Err" THEN Invalid(s)
            ELSE [s EXCEPT !.instructions = Append(@, ins),
                           !.processed_till = end]

\* Mutant: the bytes are taken from the beginning of the new object.
add_data_FromStart(s, new, start, end) ==
    IF ~s.valid THEN s
    ELSE LET ins == from_data(Slice(new, 0, end - start))
         IN IF ins.type = "Err" THEN Invalid(s)
            ELSE [s EXCEPT !.instructions = Append(@, ins)]

\* FallibleDeltaInstructions::add_data, `new` being the new object
add_data(s, new, start, end) ==
    IF ~s.valid THEN s
    ELSE LET ins == from_data(Slice(new, start, end))
         IN IF ins.type = "Err" THEN Invalid(s)
            ELSE [s EXCEPT !.instructions = Append(@, ins)]

\* Mutant: the start of the change is recorded, so the bytes the change
\* removes count as not yet processed.
ProcessedAfterChange_Start(before) == before[1]

\* How far base is processed once a change is dealt with: before.end.
ProcessedAfterChange(before) == before[2]

\* FallibleDeltaInstructions::update_processed_till
update_processed_till(s, new_processed_till) ==
    IF ~s.valid THEN s ELSE [s EXCEPT !.processed_till = new_processed_till]

RECURSIVE CopyLoop(_, _, _, _)
\* for subrange_start in (from..to).step_by(MAX_COPY_BYTES): the sink and
\* copied_till after the loop
CopyLoop(s, subrange_start, to, copied_till) ==
    IF subrange_start >= to THEN <<s, copied_till>>
    ELSE LET till == Min(to, saturating_add(subrange_start, MAX_COPY_BYTES))
         IN CopyLoop(add_copy(s, subrange_start, till),
                     subrange_start + MAX_COPY_BYTES, to, till)

\* Mutant: the range is handed to add_copy in one piece.
CopyRange_Whole(s, from, to) == add_copy(s, from, to)

\* Copy instructions for base[from..to], none larger than MAX_COPY_BYTES.
CopyRange(s, from, to) ==
    LET r == CopyLoop(s, from, to, from)
    IN IF r[2] < to THEN add_copy(r[1], r[2], to) ELSE r[1]

RECURSIVE DataLoop(_, _, _, _, _)
\* for subrange_start in after.step_by(MAX_DATA_BYTES)
DataLoop(s, new, subrange_start, to, written_till) ==
    IF subrange_start >= to THEN <<s, written_till>>
    ELSE LET till == Min(to, saturating_add(subrange_start, MAX_DATA_BYTES))
         IN DataLoop(add_data(s, new, subrange_start, till), new,
                     subrange_start + MAX_DATA_BYTES, to, till)

\* Mutant: the range is handed to add_data in one piece.
DataRange_Whole(s, new, from, to) == add_data(s, new, from, to)

\* Data instructions for new[from..to], none larger than MAX_DATA_BYTES.
DataRange(s, new, from, to) ==
    LET r == DataLoop(s, new, from, to, from)
    IN IF r[2] < to THEN add_data(r[1], new, r[2], to) ELSE r[1]

\* Mutant: the order of the changes is not looked at.
OutOfOrder_Never(s, before) == FALSE

\* before.start.cmp(&processed_till) is Ordering::Less: the change begins
\* inside what is already processed.
OutOfOrder(s, before) == before[1] < s.processed_till

\* Sink::process_change(before, after)
process_change(s, new, before, after) ==
    IF ~s.valid THEN s
    ELSE IF OutOfOrder(s, before) THEN Invalid(s)
    ELSE LET copied == IF before[1] > s.processed_till
                       THEN CopyRange(s, s.processed_till, before[1])
                       ELSE s
             written == DataRange(copied, new, after[1], after[2])
         IN update_processed_till(written, ProcessedAfterChange(before))

\* Mutant: a cursor past the end of the base object is not looked at.
finish_Unchecked(s, base) ==
    IF ~s.valid THEN s
    ELSE LET base_obj_len == ObjLen(base)
         IN IF base_obj_len <= s.processed_till THEN s
            ELSE CopyRange(s, s.processed_till, base_obj_len)

\* Mutant: what is left of the base object is not copied.
finish_NoTail(s, base) ==
    IF ~s.valid THEN s
    ELSE IF ObjLen(base) < s.processed_till THEN Invalid(s) ELSE s

\* Sink::finish
finish(s, base) ==
    IF ~s.valid THEN s
    ELSE LET base_obj_len == ObjLen(base)
         IN IF base_obj_len < s.processed_till THEN Invalid(s)
            ELSE IF base_obj_len = s.processed_till THEN s
            ELSE CopyRange(s, s.processed_till, base_obj_len)

(***************************************************************************)
(* The decoder of the tests (test::apply, from gix-pack)                   *)
(***************************************************************************)
Bit(cmd, n) == (cmd \div (2 ^ n)) % 2 = 1

\* The value read for the fields `bits` of a copy command at data[i]: each
\* field whose bit is set takes the next byte.
ReadField(data, i, cmd, bits, low) ==
    LET at(b) == i + Cardinality({x \in 0..b : Bit(cmd, x)})
        RECURSIVE Sum(_)
        Sum(S) == IF S = {} THEN 0
                  ELSE LET b == CHOOSE x \in S : TRUE
                       IN data[at(b)] * (256 ^ (b - low)) + Sum(S \ {b})
    IN Sum({b \in bits : Bit(cmd, b)})

Panic == [panic |-> TRUE, target |-> <<>>]

RECURSIVE ApplyFrom(_, _, _, _)
\* the loop of test::apply, i being the 1-based position of the next command
ApplyFrom(base, data, i, target) ==
    IF i > Len(data) THEN [panic |-> FALSE, target |-> target]
    ELSE LET cmd == data[i]
         IN IF cmd >= COPY_INSTRUCTION
            THEN LET fields == Cardinality({x \in 0..6 : Bit(cmd, x)})
                 IN IF i + fields > Len(data) THEN Panic
                    ELSE LET ofs == ReadField(data, i, cmd, 0..3, 0)
                             read == ReadField(data, i, cmd, 4..6, 4)
                             size == IF read = 0 THEN 65536 ELSE read
                         IN IF ofs + size > ObjLen(base) THEN Panic
                            ELSE ApplyFrom(base, data, i + 1 + fields,
                                           Concat(target, Slice(base, ofs, ofs + size)))
            ELSE IF cmd = 0 THEN Panic
            ELSE IF i + cmd > Len(data) THEN Panic
            ELSE ApplyFrom(base, data, i + 1 + cmd,
                           Concat(target, Compress(SubSeq(data, i + 1, i + cmd))))

\* test::apply
apply(base, data) == ApplyFrom(base, data, 1, <<>>)

(***************************************************************************)
(* generate, write_instructions and apply, step by step.  The diff engine  *)
(* (gix_diff) reports the changes of an edit script of base into new, in   *)
(* order, then finishes.                                                   *)
(***************************************************************************)
\* The positions at which a change may begin or end: the ends of the runs,
\* and one byte past them.
Cuts(o) ==
    LET ends == {ObjLen(SubSeq(o, 1, n)) : n \in 0..Len(o)}
    IN {p \in {e + d : e \in ends, d \in {0, 1}} : p >= 0 /\ p <= ObjLen(o)}

Ranges(o) == {r \in Cuts(o) \X Cuts(o) : r[1] <= r[2]}

\* The change (before, after) continues an edit script of base into new the
\* engine has reported up to `engine`: it lies ahead, it is not empty, and
\* the bytes it skips are the same in both objects.
ValidChange(before, after) ==
    /\ before[1] # before[2] \/ after[1] # after[2]
    /\ before[1] >= engine[1]
    /\ after[1] - engine[2] = before[1] - engine[1]
    /\ Slice(base_object, engine[1], before[1]) = Slice(new_object, engine[2], after[1])

\* DeltaInstructions::generate, up to the call of diff
DeltaInit ==
    /\ base_object \in Objects
    /\ new_object \in Objects
    /\ sink = NewSink
    /\ engine = <<0, 0>>
    /\ phase = "diff"
    /\ encoded = <<>>
    /\ recreated = [panic |-> FALSE, target |-> <<>>]
    /\ reported = NoReports
    /\ arg = NoArg
    /\ outcome = NoOut
    /\ out_writes = <<>>
    /\ db = [k \in Keys |-> NoValue]
    /\ spawn = FALSE
    /\ cachelib = EmptyMap
    /\ memcache = [k \in Keys |-> NoEntry]
    /\ bg = {}
    /\ call = [c \in Callers |-> IdleCall]
    /\ steady = TRUE
    /\ RateIdle

\* The engine reports a change.
ProcessChange(before, after) ==
    /\ phase = "diff"
    /\ ValidChange(before, after)
    /\ after[2] - after[1] <= MaxChange
    /\ sink' = process_change(sink, new_object, before, after)
    /\ engine' = <<before[2], after[2]>>
    /\ UNCHANGED <<base_object, new_object, phase, encoded, recreated>>
    /\ UNCHANGED <<reported, arg, outcome, out_writes>>
    /\ UNCHANGED cacheVars
    /\ UNCHANGED rateVars

\* The engine has reported every change: what is left of the two objects is
\* the same.  generate returns what finish returns.
Finish ==
    /\ phase = "diff"
    /\ Slice(base_object, engine[1], ObjLen(base_object))
          = Slice(new_object, engine[2], ObjLen(new_object))
    /\ sink' = finish(sink, base_object)
    /\ phase' = "generated"
    /\ UNCHANGED <<base_object, new_object, engine, encoded, recreated>>
    /\ UNCHANGED <<reported, arg, outcome, out_writes>>
    /\ UNCHANGED cacheVars
    /\ UNCHANGED rateVars

\* write_instructions on the instructions generate returned
WriteInstructions ==
    /\ phase = "generated"
    /\ sink.valid
    /\ encoded' = write_instructions(sink.instructions)
    /\ out_writes' = write_instructions_calls(sink.instructions)
    /\ phase' = "written"
    /\ UNCHANGED <<base_object, new_object, sink, engine, recreated>>
    /\ UNCHANGED <<reported, arg, outcome>>
    /\ UNCHANGED cacheVars
    /\ UNCHANGED rateVars

\* DeltaInstructions::write on the instructions generate returned
Write ==
    /\ phase = "generated"
    /\ sink.valid
    /\ encoded' = DeltaInstructions_write(base_object, new_object, sink.instructions)
    /\ out_writes' = write_size_calls(ObjLen(base_object))
                        \o write_size_calls(ObjLen(new_object))
                        \o write_instructions_calls(sink.instructions)
    /\ phase' = "encoded"
    /\ UNCHANGED <<base_object, new_object, sink, engine, recreated>>
    /\ UNCHANGED <<reported, arg, outcome>>
    /\ UNCHANGED cacheVars
    /\ UNCHANGED rateVars

\* apply(base, recreated_new_object, encoded_instructions)
Apply ==
    /\ phase = "written"
    /\ recreated' = apply(base_object, encoded)
    /\ phase' = "applied"
    /\ UNCHANGED <<base_object, new_object, sink, engine, encoded>>
    /\ UNCHANGED <<reported, arg, outcome, out_writes>>
    /\ UNCHANGED cacheVars
    /\ UNCHANGED rateVars

DeltaNext ==
    \/ \E before \in Ranges(base_object), after \in Ranges(new_object) :
          ProcessChange(before, after)
    \/ Finish
    \/ WriteInstructions
    \/ Write
    \/ Apply

DeltaSpec == DeltaInit /\ [][DeltaNext]_vars

(***************************************************************************)
(* The sink under a diff engine that may be faulty: the changes it reports *)
(* are any ranges with start <= end, in any order, and it may finish at    *)
(* any moment.                                                             *)
(***************************************************************************)
\* changes a faulty engine reports, at most
MaxEvents == 3

\* The tiered cache at rest, nothing in it.
CacheIdle ==
    /\ db = [k \in Keys |-> NoValue]
    /\ spawn = FALSE
    /\ cachelib = EmptyMap
    /\ memcache = [k \in Keys |-> NoEntry]
    /\ bg = {}
    /\ call = [c \in Callers |-> IdleCall]
    /\ steady = TRUE

\* Base objects of one run, of the lengths around the limits.
SinkBases == {<<>>} \cup {<<<<97, n>>>> : n \in RunLens}

\* New objects of one run, up to one byte more than a Data instruction holds.
SinkNews == {<<>>} \cup {<<<<98, n>>>> : n \in {1, MAX_DATA_BYTES + 1}}

\* Ranges of the base object a faulty engine may name: they may end one byte
\* past the object.
BeforeRanges(o) ==
    LET cuts == Cuts(o) \cup {ObjLen(o) + 1}
    IN {r \in cuts \X cuts : r[1] <= r[2]}

\* Ranges of the new object: add_data slices the object, so they lie in it.
AfterRanges(o) == {r \in Ranges(o) : r[2] - r[1] <= MaxChange}

\* FallibleDeltaInstructions::into_result
into_result(s) == IF s.valid THEN "Ok" ELSE "Err"

\* DeltaInstructions::generate, up to the call of diff
SinkInit ==
    /\ base_object \in SinkBases
    /\ new_object \in SinkNews
    /\ sink = NewSink
    /\ engine = <<0, 0>>
    /\ phase = "diff"
    /\ encoded = <<>>
    /\ recreated = [panic |-> FALSE, target |-> <<>>]
    /\ reported = NoReports
    /\ arg = NoArg
    /\ outcome = NoOut
    /\ out_writes = <<>>
    /\ CacheIdle
    /\ RateIdle

\* The engine reports a change, whatever it is.
ReportChange(before, after) ==
    /\ phase = "diff"
    /\ reported.count < MaxEvents
    /\ sink' = process_change(sink, new_object, before, after)
    /\ LET faulty == sink.valid /\ before[1] < sink.processed_till
       IN reported' =
            [count |-> reported.count + 1,
             empty_after |-> reported.empty_after \/ (sink.valid /\ after[1] = after[2]),
             fault |-> reported.fault \/ faulty,
             held |-> IF faulty
                      THEN <<Len(sink.instructions), sink.processed_till>>
                      ELSE reported.held,
             later |-> IF reported.fault THEN reported.later + 1 ELSE reported.later]
    /\ UNCHANGED <<base_object, new_object, engine, phase, encoded, recreated>>
    /\ UNCHANGED <<arg, outcome, out_writes>>
    /\ UNCHANGED cacheVars
    /\ UNCHANGED rateVars

\* The engine stops reporting: generate returns what finish returns.
EngineFinish ==
    /\ phase = "diff"
    /\ sink' = finish(sink, base_object)
    /\ phase' = "generated"
    /\ UNCHANGED <<base_object, new_object, engine, encoded, recreated>>
    /\ UNCHANGED <<reported, arg, outcome, out_writes>>
    /\ UNCHANGED cacheVars
    /\ UNCHANGED rateVars

SinkNext ==
    \/ \E before \in BeforeRanges(base_object), after \in AfterRanges(new_object) :
          ReportChange(before, after)
    \/ EngineFinish

SinkSpec == SinkInit /\ [][SinkNext]_vars

(***************************************************************************)
(* The constructors of an instruction and the size codec, called on their  *)
(* own as the unit tests call them.                                        *)
(***************************************************************************)
\* the longest data handed to from_data
MaxLen == 129
\* every size up to this one is encoded, and the sizes around the powers of
\* 128 beyond it
MaxSize == 300

\* data of `len` bytes, all of them `byte`
DataOf(byte, len) == IF len = 0 THEN <<>> ELSE <<<<byte, len>>>>

DataArgs == {[fn |-> "from_data", a |-> len, b |-> byte] :
                len \in 0..MaxLen, byte \in ByteValues}

\* ranges start..end: empty, of the lengths around the limits, and reversed
CopyArgs ==
    {[fn |-> "from_copy", a |-> start, b |-> start + len] :
        start \in {0, 32, COPY_SPECIAL_SIZE},
        len \in {0, 1, 2, COPY_SPECIAL_SIZE, MAX_COPY_BYTES - 1, MAX_COPY_BYTES,
                 MAX_COPY_BYTES + 1, MAX_COPY_BYTES + 2}}
    \cup {[fn |-> "from_copy", a |-> 32, b |-> 0],
          [fn |-> "from_copy", a |-> MAX_COPY_BYTES + 1, b |-> 1]}

\* what may follow an encoded size in the stream
Trailers == <<<< >>, <<0>>, <<255, 1>>, <<127>>>>

Sizes ==
    (0..MaxSize)
    \cup {(2 ^ (7 * k)) + d : k \in 1..4, d \in {-1, 0, 1}}
    \cup {MAX_COPY_BYTES, 2147483647}

SizeArgs == {[fn |-> "write_size", a |-> n, b |-> t] :
                n \in Sizes, t \in 1..Len(Trailers)}

\* offsets with each of their four bytes zero or not
CopyOffsets ==
    {0, 1, 255, 256, COPY_SPECIAL_SIZE, MAX_COPY_BYTES + 1, 16909060, 2130706432}

\* sizes of a Copy instruction: the small ones, and those around the special
\* size and with zero bytes among their three
CopySizes ==
    (1..MaxSize)
    \cup {65280, COPY_SPECIAL_SIZE - 1, COPY_SPECIAL_SIZE, COPY_SPECIAL_SIZE + 1,
          2 * COPY_SPECIAL_SIZE, 16711680, 16711935, 16776960,
          MAX_COPY_BYTES - 1, MAX_COPY_BYTES}

WriteArgs == {[fn |-> "write", a |-> offset, b |-> size] :
                 offset \in CopyOffsets, size \in CopySizes}

UnitInit ==
    /\ arg \in DataArgs \cup CopyArgs \cup SizeArgs \cup WriteArgs
    /\ outcome = NoOut
    /\ out_writes = <<>>
    /\ base_object = <<>>
    /\ new_object = <<>>
    /\ sink = NewSink
    /\ engine = <<0, 0>>
    /\ phase = "none"
    /\ encoded = <<>>
    /\ recreated = [panic |-> FALSE, target |-> <<>>]
    /\ reported = NoReports
    /\ CacheIdle
    /\ RateIdle

\* DeltaInstruction::from_data(data)
FromData ==
    /\ arg.fn = "from_data" /\ ~outcome.done
    /\ outcome' = [done |-> TRUE, ins |-> from_data(DataOf(arg.b, arg.a)),
                   bytes |-> <<>>]
    /\ UNCHANGED <<base_object, new_object, sink, engine, phase, encoded, recreated>>
    /\ UNCHANGED <<reported, arg, out_writes>>
    /\ UNCHANGED cacheVars
    /\ UNCHANGED rateVars

\* DeltaInstruction::from_copy(start..end)
FromCopy ==
    /\ arg.fn = "from_copy" /\ ~outcome.done
    /\ outcome' = [done |-> TRUE, ins |-> from_copy(arg.a, arg.b), bytes |-> <<>>]
    /\ UNCHANGED <<base_object, new_object, sink, engine, phase, encoded, recreated>>
    /\ UNCHANGED <<reported, arg, out_writes>>
    /\ UNCHANGED cacheVars
    /\ UNCHANGED rateVars

\* write_size(size, out)
WriteSize ==
    /\ arg.fn = "write_size" /\ ~outcome.done
    /\ outcome' = [done |-> TRUE, ins |-> NoInstruction, bytes |-> write_size(arg.a)]
    /\ UNCHANGED <<base_object, new_object, sink, engine, phase, encoded, recreated>>
    /\ UNCHANGED <<reported, arg, out_writes>>
    /\ UNCHANGED cacheVars
    /\ UNCHANGED rateVars

\* DeltaInstruction::write on the Copy instruction from_copy builds
WriteCopy ==
    /\ arg.fn = "write" /\ ~outcome.done
    /\ LET ins == from_copy(arg.a, arg.a + arg.b)
       IN outcome' = [done |-> TRUE, ins |-> ins, bytes |-> write(ins)]
    /\ UNCHANGED <<base_object, new_object, sink, engine, phase, encoded, recreated>>
    /\ UNCHANGED <<reported, arg, out_writes>>
    /\ UNCHANGED cacheVars
    /\ UNCHANGED rateVars

UnitNext ==
    \/ FromData
    \/ FromCopy
    \/ WriteSize
    \/ WriteCopy

UnitSpec == UnitInit /\ [][UnitNext]_vars

(***************************************************************************)
(* The rate limiter (rate_limiting/src/facebook.rs).                       *)
(*                                                                         *)
(* check_rate_limit walks the configured limits in order.  Whether a limit *)
(* applies to the client (applies_to_client) and whether its counter is    *)
(* over the threshold (loadlimiter::should_throttle) are answers of the    *)
(* collaborators, drawn step by step.                                      *)
(***************************************************************************)
\* limits configured, at most
MaxLimits == 2

Metrics == {"EgressBytes", "Commits"}

\* RateLimitStatus; Unknown stands for a value of the Thrift enum other
\* than the three.
Statuses == {"Disabled", "Tracked", "Enforced", "Unknown"}

Windows == {10, 60}

\* A limit: its metric, and the status and the window of its body.
Limits == [metric : Metrics, status : Statuses, window : Windows]

RateConfigs == UNION {[1..n -> Limits] : n \in 0..MaxLimits}

\* RateLimitReason::RateLimitedMetric(metric, window)
RateLimitedMetric(metric, window) == <<metric, window>>

\* log_or_enforce_status: what it returns, and what it logs to scuba.
log_or_enforce_status(body, metric) ==
    CASE body.status = "Disabled" -> [result |-> "Pass", reason |-> <<>>, log |-> <<>>]
      [] body.status = "Tracked" ->
            [result |-> "Pass", reason |-> <<>>,
             log |-> <<RateLimitedMetric(metric, body.window)>>]
      [] body.status = "Enforced" ->
            [result |-> "Fail", reason |-> RateLimitedMetric(metric, body.window),
             log |-> <<>>]
      [] OTHER -> [result |-> "Panic", reason |-> <<>>, log |-> <<>>]

\* The value of the Fail arm of the match on log_or_enforce_status: the arm
\* is an expression statement, its value is dropped and the loop goes on
\* with the next limit.
FailArm(rec, reason) == [rec EXCEPT !.i = rec.i + 1]

RateInit ==
    /\ rate_limits \in RateConfigs
    /\ check = IdleCheck
    /\ DeltaIdle
    /\ CacheIdle

\* check_rate_limit(metric, identities, main_id, scuba) is called.
CheckRateLimit(metric) ==
    /\ check.pc = "idle"
    /\ check' = [check EXCEPT !.pc = "loop", !.metric = metric]
    /\ UNCHANGED rate_limits
    /\ UNCHANGED cacheVars
    /\ UNCHANGED deltaVars

\* One turn of `for limit in &self.config.rate_limits`: `applies` is the
\* answer of applies_to_client, `throttle` that of should_throttle
\* ("yes", "no", or "err" for its error).
CheckLimit(applies, throttle) ==
    /\ check.pc = "loop"
    /\ check.i <= Len(rate_limits)
    /\ LET limit == rate_limits[check.i]
           next(visit) == [check EXCEPT !.i = check.i + 1,
                                        !.visits = Append(@, visit)]
       IN IF limit.metric # check.metric
          THEN ~applies /\ throttle = "no" /\ check' = next("other_metric")
          ELSE IF ~applies
          THEN throttle = "no" /\ check' = next("not_applicable")
          ELSE IF throttle = "err"
          THEN check' = [next("error") EXCEPT !.pc = "done", !.result = "Err"]
          ELSE IF throttle = "no"
          THEN check' = next("not_throttled")
          ELSE LET r == log_or_enforce_status(limit, check.metric)
                   met == [check EXCEPT !.visits = Append(@, "throttled"),
                                        !.logged = @ \o r.log]
               IN check' =
                    CASE r.result = "Pass" ->
                            [met EXCEPT !.pc = "done", !.result = "Pass"]
                      [] r.result = "Fail" -> FailArm(met, r.reason)
                      [] OTHER -> [met EXCEPT !.pc = "done", !.result = "Panic"]
    /\ UNCHANGED rate_limits
    /\ UNCHANGED cacheVars
    /\ UNCHANGED deltaVars

\* The loop has ended: Ok(RateLimitResult::Pass).
CheckReturn ==
    /\ check.pc = "loop"
    /\ check.i > Len(rate_limits)
    /\ check' = [check EXCEPT !.pc = "done", !.result = "Pass"]
    /\ UNCHANGED rate_limits
    /\ UNCHANGED cacheVars
    /\ UNCHANGED deltaVars

RateNext ==
    \/ \E metric \in Metrics : CheckRateLimit(metric)
    \/ \E applies \in BOOLEAN, throttle \in {"yes", "no", "err"} :
          CheckLimit(applies, throttle)
    \/ CheckReturn

RateSpec == RateInit /\ [][RateNext]_vars

(***************************************************************************)
(* Claims about the tiered cache.                                          *)
(***************************************************************************)

FromCl(rec) == MapKeys(rec.clVal)
McHits(rec) == {k \in Keys : rec.mcRes[k] = "Hit"}
\* keys under which the shared tier held an entity when probed
McHeld(rec) == {k \in Keys : deserialize(rec.mcSaw[k]) # NoValue}
Returned(rec) == rec.pc = "done"
Missed(rec) == rec.keys \ (FromCl(rec) \cup McHits(rec))

\* C1: get_or_fill called with an empty key set returns an empty map and
\* touches no backend: no fast-tier get, no shared-tier get, no get_from_db
\* invocation, no write to either tier.
Thm_C1 ==
    \A c \in Callers :
        (call[c].op = "get_or_fill" /\ call[c].keys = {}) =>
            /\ call[c].clGets = 0
            /\ call[c].mcGets = 0
            /\ call[c].dbCalls = 0
            /\ call[c].clWrites = {} /\ call[c].mcWrites = {}
            /\ call[c].result \in {"none", "Ok"}
            /\ Returned(call[c]) => call[c].ret = EmptyMap

Wit_C1 ==
    \E c \in Callers :
        /\ call[c].op = "get_or_fill" /\ call[c].keys = {}
        /\ Returned(call[c]) /\ call[c].result = "Ok"

\* Two successive get_or_fill calls of the same keys, both successful, with
\* nothing evicted, no foreign write, no failed operation and no fill_cache
\* since the first began, the tiers holding only entries of the store.
SecondOfTwo(rec) ==
    /\ rec.op = "get_or_fill" /\ Returned(rec) /\ rec.result = "Ok"
    /\ rec.hasPrev /\ steady

\* C2 as stated: for any key set K (pure store, nothing evicted between the
\* calls) the second of two get_or_fill(store, K) calls returns the same map
\* and performs zero backing-store invocations.
C2_Original ==
    \A c \in Callers :
        SecondOfTwo(call[c]) =>
            /\ call[c].ret = call[c].prevRet
            /\ call[c].dbCalls = 0

\* C2 amended: the second call returns the same map; it performs zero
\* backing-store invocations when every key of K is in the store with
\* disposition Cache(NoTtl).
Thm_C2 ==
    \A c \in Callers :
        SecondOfTwo(call[c]) =>
            /\ call[c].ret = call[c].prevRet
            /\ (\A k \in call[c].keys :
                    db[k] # NoValue /\ cache_determinator(db[k]) = "NoTtl")
                 => call[c].dbCalls = 0

Wit_C2 ==
    \E c \in Callers :
        /\ SecondOfTwo(call[c])
        /\ call[c].keys = Keys
        /\ \A k \in Keys : db[k] # NoValue /\ cache_determinator(db[k]) = "NoTtl"
        /\ call[c].ret = db
        /\ call[c].dbCalls = 0

RECURSIVE Outputs(_, _)
\* What the instructions put out, one after the other, applied to `base`.
Outputs(instructions, base) ==
    IF instructions = <<>> THEN <<>>
    ELSE LET ins == Head(instructions)
             out == IF ins.type = "Data" THEN ins.bytes
                    ELSE Slice(base, ins.base_offset, ins.base_offset + ins.size)
         IN Concat(out, Outputs(Tail(instructions), base))

\* C3: delta round-trip: for every base and new object and every valid edit
\* script of base into new, generate succeeds, the outputs of its
\* instructions put end to end are the new object, and the decoder applied
\* to base and the serialized instructions reconstructs the new object.
Thm_C3 ==
    /\ phase \in {"generated", "written", "applied"} =>
          /\ sink.valid
          /\ Outputs(sink.instructions, base_object) = new_object
    /\ phase = "applied" =>
          /\ ~recreated.panic
          /\ recreated.target = new_object

Wit_C3 ==
    /\ phase = "applied"
    /\ recreated.target = new_object
    /\ base_object # new_object
    /\ \E i \in 1..Len(sink.instructions) :
          /\ sink.instructions[i].type = "Copy"
          /\ sink.instructions[i].size = MAX_COPY_BYTES
    /\ \E i \in 1..Len(sink.instructions) :
          /\ sink.instructions[i].type = "Data"
          /\ ObjLen(sink.instructions[i].bytes) = MAX_DATA_BYTES

\* What C4 says of get_from_db, but for the presence of its keys in the tiers.
StoreCallShape(rec) ==
    /\ rec.dbCalls <= 1
    /\ rec.dbCalls = 1 => (rec.dbArg # {} /\ rec.dbArg = Missed(rec))
    /\ rec.dbArg \cap McHits(rec) = {}
    /\ (rec.op = "get_or_fill" /\ Returned(rec) /\ rec.fault # "cachelib_read")
          => (rec.dbCalls = 0 <=> Missed(rec) = {})

\* C4 as stated: get_from_db is invoked at most once per call, with exactly
\* the requested keys that hit neither tier; every key passed to it is
\* present in neither tier; it is not invoked when that set is empty.
C4_Original ==
    \A c \in Callers :
        /\ StoreCallShape(call[c])
        /\ call[c].dbArg \cap (FromCl(call[c]) \cup McHeld(call[c])) = {}

\* C4 amended: get_from_db is invoked at most once per call, with exactly the
\* requested keys that hit neither tier; every key passed to it missed the
\* fast tier and its shared-tier get returned no usable value (nothing, an
\* error, or bytes that do not decode); it is not invoked when that set is
\* empty.
Thm_C4 ==
    \A c \in Callers :
        /\ StoreCallShape(call[c])
        /\ call[c].dbArg \cap FromCl(call[c]) = {}
        /\ \A k \in call[c].dbArg :
              call[c].mcRes[k] \in {"Missing", "MemcacheInternal", "Deserialization"}

Wit_C4 ==
    \E c \in Callers :
        /\ call[c].keys = Keys /\ call[c].dbCalls = 1
        /\ McHits(call[c]) # {}
        /\ call[c].dbArg \cap McHeld(call[c]) # {}

\* C5: within one get_or_fill call the shared tier is never probed for a key
\* the fast tier returned, and it is probed exactly once for each key that
\* missed the fast tier.
Thm_C5 ==
    \A c \in Callers :
        /\ call[c].mcProbed \cap FromCl(call[c]) = {}
        /\ call[c].mcGets = Cardinality(call[c].mcProbed)
        /\ call[c].mcProbed \cup call[c].mcPending \subseteq call[c].keys
        /\ (call[c].op = "get_or_fill" /\ call[c].pc \in {"db", "mc_write", "done"}
               /\ call[c].fault # "cachelib_read")
             => call[c].mcProbed = call[c].keys \ FromCl(call[c])

Wit_C5 ==
    \E c \in Callers :
        /\ Returned(call[c]) /\ call[c].keys = Keys
        /\ Cardinality(FromCl(call[c])) = 1
        /\ call[c].mcGets = 1

\* The value the lookup order gives key k, `shared` being the shared tier's
\* part in it.
Lookup(rec, k, shared) ==
    IF rec.clVal[k] # NoValue THEN rec.clVal[k]
    ELSE IF shared # NoValue THEN shared
    ELSE db[k]

\* C6 as stated: the value returned for k is the fast tier's if it holds k,
\* else the shared tier's if it holds k at call time, else the store's; a key
\* found nowhere is absent from the map and the call still succeeds.
C6_Original ==
    \A c \in Callers :
        (call[c].op = "get_or_fill" /\ Returned(call[c]) /\ call[c].result = "Ok") =>
            \A k \in Keys :
                call[c].ret[k] =
                    IF k \notin call[c].keys THEN NoValue
                    ELSE IF call[c].clVal[k] # NoValue THEN call[c].clVal[k]
                    ELSE IF k \in McHeld(call[c]) THEN deserialize(call[c].mcSaw[k])
                    ELSE db[k]

\* C6 amended: the value returned for k is the fast tier's if it holds k,
\* else the shared tier's if the shared-tier get of k returns bytes that
\* decode, else the store's; a key found nowhere is absent from the map, and
\* the call succeeds unless the fast-tier read or the store lookup fails.
Thm_C6 ==
    \A c \in Callers :
        (call[c].op = "get_or_fill" /\ Returned(call[c])) =>
            /\ call[c].result = "Ok" <=> call[c].fault = "none"
            /\ call[c].result = "Ok" =>
                 \A k \in Keys :
                    call[c].ret[k] =
                        IF k \notin call[c].keys THEN NoValue
                        ELSE Lookup(call[c], k, call[c].mcVal[k])

Wit_C6 ==
    \E c \in Callers :
        /\ call[c].op = "get_or_fill" /\ Returned(call[c]) /\ call[c].result = "Ok"
        /\ call[c].keys = Keys
        /\ McHits(call[c]) = {"key0"} /\ call[c].ret["key0"] # db["key0"]
        /\ FromCl(call[c]) = {"key1"}

\* C7: when get_from_db returns an error, get_or_fill returns an error
\* ("Error reading from store") and no map: the values already obtained from
\* the fast tier or the shared tier are not delivered.
Thm_C7 ==
    \A c \in Callers :
        call[c].fault = "store" =>
            /\ Returned(call[c])
            /\ call[c].result = "ErrStore"
            /\ call[c].ret = EmptyMap

Wit_C7 ==
    \E c \in Callers :
        /\ call[c].fault = "store" /\ call[c].result = "ErrStore"
        /\ FromCl(call[c]) # {}

\* C8: a shared-tier error never makes get_or_fill or fill_cache fail: a
\* shared-tier get that errors or whose bytes do not decode is treated as a
\* miss and the key is looked up in the store; a failed shared-tier write is
\* ignored.
Thm_C8 ==
    \A c \in Callers :
        /\ (call[c].pc \in {"db", "mc_write", "done"}) =>
              \A k \in Keys :
                 call[c].mcRes[k] \in {"MemcacheInternal", "Deserialization"}
                    => k \in call[c].dbArg
        /\ (Returned(call[c]) /\ call[c].fault = "none") => call[c].result = "Ok"
        /\ (Returned(call[c]) /\ call[c].op = "fill_cache") => call[c].result = "Ok"
        /\ call[c].result = "ErrStore" => call[c].fault = "store"

Wit_C8 ==
    \E c \in Callers :
        /\ Returned(call[c]) /\ call[c].result = "Ok"
        /\ \E k \in Keys : call[c].mcRes[k] = "MemcacheInternal" /\ call[c].ret[k] = db[k]
                            /\ db[k] # NoValue /\ call[c].mcSaw[k] # <<>>

\* C9 as stated: no error of a fast-tier operation, read or write, makes
\* get_or_fill return an error.
C9_Original ==
    \A c \in Callers :
        (call[c].op = "get_or_fill" /\ Returned(call[c])) =>
            call[c].result # "ErrCachelib"

\* C9 amended: no error of a fast-tier write makes get_or_fill return an
\* error (a call with a failed set_cached succeeds unless the store lookup
\* fails); among the fast-tier operations only the batched read escalates.
Thm_C9 ==
    \A c \in Callers :
        (call[c].op = "get_or_fill" /\ Returned(call[c])) =>
            /\ (call[c].clFailed # {} /\ call[c].fault = "none") => call[c].result = "Ok"
            /\ call[c].result = "ErrCachelib" => call[c].fault = "cachelib_read"
            /\ call[c].clFailed # {} => call[c].result # "ErrCachelib"

Wit_C9 ==
    \E c \in Callers :
        /\ call[c].op = "get_or_fill" /\ Returned(call[c])
        /\ call[c].clFailed # {} /\ call[c].result = "Ok"

\* C10: when the batched fast-tier read fails, get_or_fill returns that error
\* ("Error reading from cachelib"); in that call neither the shared tier nor
\* the store is probed and no tier is written.
Thm_C10 ==
    \A c \in Callers :
        call[c].fault = "cachelib_read" =>
            /\ Returned(call[c])
            /\ call[c].result = "ErrCachelib"
            /\ call[c].ret = EmptyMap
            /\ call[c].mcGets = 0 /\ call[c].mcPending = {}
            /\ call[c].dbCalls = 0
            /\ call[c].clWrites = {} /\ call[c].mcWrites = {} /\ call[c].wr = {}

Wit_C10 ==
    \E c \in Callers :
        /\ call[c].fault = "cachelib_read" /\ call[c].result = "ErrCachelib"
        /\ call[c].keys = Keys

\* The value a returned call produced from the store, or was given, for k.
Handled(rec, k) ==
    IF rec.op = "fill_cache" THEN rec.given[k] ELSE rec.data[k]

IsIgnore(v) == v # NoValue /\ cache_determinator(v) = "Ignore"

IsOversize(v) == v # NoValue /\ Len(serialize(v)) >= MEMCACHE_VALUE_MAX_SIZE

\* C11 as stated: after a get_or_fill or fill_cache call that produced or
\* was given a value v for k with cache_determinator(v) = Ignore, k appears
\* in neither the fast tier nor the shared tier.
C11_Original ==
    \A c \in Callers :
        (Returned(call[c]) /\ call[c].result = "Ok") =>
            \A k \in Keys :
                IsIgnore(Handled(call[c], k)) =>
                    cachelib[k] = NoValue /\ memcache[k] = NoEntry

\* C11 amended: a call that produced or was given a value v for k with
\* disposition Ignore writes k to neither tier, and no tier ever holds such a
\* value; k stays in a tier only with a value an earlier call has cached.
Thm_C11 ==
    /\ \A k \in Keys :
          /\ ~IsIgnore(cachelib[k])
          /\ ~IsIgnore(deserialize(memcache[k].bytes))
    /\ \A w \in bg : ~IsIgnore(deserialize(w.bytes))
    /\ \A c \in Callers :
          /\ \A w \in call[c].wr : ~IsIgnore(deserialize(w.bytes))
          /\ \A k \in Keys :
                IsIgnore(Handled(call[c], k)) =>
                    k \notin call[c].clWrites \cup call[c].clFailed \cup call[c].mcWrites

Wit_C11 ==
    \E c \in Callers :
        /\ call[c].op = "get_or_fill" /\ Returned(call[c]) /\ call[c].result = "Ok"
        /\ IsIgnore(call[c].data["key0"])
        /\ call[c].ret["key0"] = call[c].data["key0"]
        /\ call[c].clWrites = {"key1"}
        /\ cachelib["key0"] = NoValue /\ memcache["key0"] = NoEntry

AfterFill(rec) ==
    /\ rec.op = "get_or_fill" /\ Returned(rec) /\ rec.result = "Ok"
    /\ rec.prevFill # EmptyMap

\* What fill_cache does itself: no read of either tier, no store call, and
\* the writes the dispositions of the pairs ask for.
FillCacheWrites(rec) ==
    rec.op = "fill_cache" =>
        /\ rec.clGets = 0 /\ rec.mcGets = 0 /\ rec.mcProbed = {} /\ rec.dbCalls = 0
        /\ rec.result \in {"none", "Ok"}
        /\ Returned(rec) =>
              /\ rec.clWrites \cup rec.clFailed =
                    {k \in MapKeys(rec.given) : cache_determinator(rec.given[k]) = "NoTtl"}
              /\ rec.mcWrites =
                    {k \in MapKeys(rec.given) :
                        /\ cache_determinator(rec.given[k]) # "Ignore"
                        /\ ~IsOversize(rec.given[k])}

\* C13 as stated: fill_cache writes the pairs into both tiers subject to
\* cache_determinator without reading, and (with spawn = false) a following
\* get_or_fill for those keys returns the supplied values with zero
\* shared-tier gets and zero backing-store calls.
C13_Original ==
    \A c \in Callers :
        /\ FillCacheWrites(call[c])
        /\ (AfterFill(call[c]) /\ ~spawn) =>
              /\ \A k \in call[c].keys : call[c].ret[k] = call[c].prevFill[k]
              /\ call[c].mcGets = 0
              /\ call[c].dbCalls = 0

\* C13 amended: fill_cache writes the pairs into both tiers subject to
\* cache_determinator without reading; a following get_or_fill returns a
\* supplied Cache(NoTtl) value with zero shared-tier gets and zero store
\* calls; a Cache(Ttl) value is not written to the fast tier and (with
\* spawn = false, the fast tier missing the key) is returned from the shared
\* tier when its get succeeds, with no store call; an Ignore value is
\* written to neither tier and, both tiers missing the key, is asked of the
\* store.
Thm_C13 ==
    \A c \in Callers :
        /\ FillCacheWrites(call[c])
        /\ AfterFill(call[c]) =>
              \A k \in call[c].keys :
                 LET v == call[c].prevFill[k]
                     d == cache_determinator(v)
                 IN /\ d = "NoTtl" =>
                          /\ call[c].ret[k] = v
                          /\ call[c].mcGets = 0 /\ call[c].dbCalls = 0
                    /\ (d = "Ttl" /\ ~spawn /\ k \notin FromCl(call[c])) =>
                          /\ k \in call[c].mcProbed
                          /\ call[c].mcRes[k] = "Hit" =>
                                call[c].ret[k] = v /\ k \notin call[c].dbArg
                    /\ d = "Ignore" =>
                          /\ call[c].clVal[k] # v /\ call[c].mcVal[k] # v
                          /\ k \notin FromCl(call[c]) \cup McHits(call[c])
                                => k \in call[c].dbArg

Wit_C13 ==
    \E c \in Callers :
        /\ AfterFill(call[c]) /\ ~spawn
        /\ call[c].keys = {"key0"}
        /\ cache_determinator(call[c].prevFill["key0"]) = "NoTtl"
        /\ call[c].ret["key0"] = call[c].prevFill["key0"]
        /\ call[c].ret["key0"] # db["key0"]
        /\ call[c].mcGets = 0 /\ call[c].dbCalls = 0

\* The entry a shared-tier write of value v leaves.
Written(v) == McEntry(serialize(v), ttl_of(v))

\* C14: when spawn_memcache_writes() is false no shared-tier write is left
\* to a background task: every write a call issued has completed when the
\* call returns, and those that succeeded are then in the shared tier, from
\* which a later get_or_fill is served once the fast tier is dropped.
Thm_C14 ==
    ~spawn =>
        /\ bg = {}
        /\ \A c \in Callers :
              Returned(call[c]) =>
                  /\ call[c].wr = {}
                  /\ \A k \in call[c].mcWrites \ call[c].wrFailed :
                        memcache[k] = Written(Handled(call[c], k))

Wit_C14 ==
    /\ ~spawn
    /\ cachelib = EmptyMap
    /\ \E c \in Callers :
          /\ call[c].op = "get_or_fill" /\ Returned(call[c]) /\ call[c].result = "Ok"
          /\ call[c].keys = Keys
          /\ FromCl(call[c]) = {}
          /\ McHits(call[c]) = Keys
          /\ call[c].dbCalls = 0
          /\ call[c].ret = db

InBounds(ins) ==
    /\ ins.type \in {"Data", "Copy"}
    /\ ins.type = "Data" =>
          ObjLen(ins.bytes) >= 1 /\ ObjLen(ins.bytes) <= MAX_DATA_BYTES
    /\ ins.type = "Copy" => ins.size >= 1 /\ ins.size <= MAX_COPY_BYTES

\* C16: every instruction of a program that generate returns (and of the
\* program being built for it) satisfies the size bounds, whatever changes
\* were reported: a Data instruction carries 1 to 127 bytes, a Copy
\* instruction has a size of 1 to 2^24-1.
Thm_C16 ==
    sink.valid =>
        \A i \in 1..Len(sink.instructions) : InBounds(sink.instructions[i])

Wit_C16 ==
    /\ phase = "generated" /\ sink.valid
    /\ reported.empty_after
    /\ \E i \in 1..(Len(sink.instructions) - 1) :
          /\ sink.instructions[i] = Copy(0, MAX_COPY_BYTES)
          /\ sink.instructions[i + 1] = Copy(MAX_COPY_BYTES, 1)
    /\ \E j \in 1..Len(sink.instructions) :
          /\ sink.instructions[j].type = "Data"
          /\ ObjLen(sink.instructions[j].bytes) = MAX_DATA_BYTES

\* C19: a change that begins before the position already processed is a hard
\* error: from that change on the sink is failed, the changes reported later
\* add no instruction and do not move the cursor, and finish, hence
\* generate, returns the error.
Thm_C19 ==
    reported.fault =>
        /\ ~sink.valid
        /\ Len(sink.instructions) = reported.held[1]
        /\ sink.processed_till = reported.held[2]
        /\ into_result(sink) = "Err"

Wit_C19 ==
    /\ reported.fault
    /\ reported.later >= 1
    /\ reported.held[1] >= 1
    /\ phase = "generated"
    /\ into_result(sink) = "Err"

(***************************************************************************)
(* Claims about the constructors and the size codec.                       *)
(***************************************************************************)

\* C17 as stated: from_data returns an error when the data is empty or
\* longer than 127 bytes, and succeeds for every length from 1 to 127.
C17_Claim ==
    (arg.fn = "from_data" /\ outcome.done) =>
        IF arg.a = 0 \/ arg.a > 127
        THEN outcome.ins.type = "Err"
        ELSE outcome.ins = Data(DataOf(arg.b, arg.a))

\* C18: from_copy returns an error when the range is empty or its length
\* exceeds 2^24-1, and otherwise Copy{base_offset = range.start, size = the
\* length of the range}; the length 2^24-1 is accepted, 2^24 rejected.
Thm_C18 ==
    (arg.fn = "from_copy" /\ outcome.done) =>
        IF arg.b <= arg.a \/ arg.b - arg.a > 16777215
        THEN outcome.ins.type = "Err"
        ELSE /\ outcome.ins.type = "Copy"
             /\ outcome.ins.base_offset = arg.a
             /\ outcome.ins.size = arg.b - arg.a

Wit_C18 ==
    /\ arg.fn = "from_copy" /\ outcome.done
    /\ arg.a = 32 /\ arg.b - arg.a = 16777215
    /\ outcome.ins = Copy(32, 16777215)

\* C20: reading the bytes write_size(n) writes, whatever follows them, gives
\* n back and consumes exactly the bytes written.
Thm_C20 ==
    (arg.fn = "write_size" /\ outcome.done) =>
        LET read == read_size(outcome.bytes \o Trailers[arg.b])
        IN /\ read.ok
           /\ read.value = arg.a
           /\ read.consumed = Len(outcome.bytes)

Wit_C20 ==
    /\ arg.fn = "write_size" /\ outcome.done
    /\ arg.a = 2 ^ 14
    /\ outcome.bytes = <<128, 128, 1>>
    /\ Trailers[arg.b] = <<255, 1>>

\* The number of bytes a copy command announces for its fields `bits`.
FieldBytes(cmd, bits) == Cardinality({x \in bits : Bit(cmd, x)})

\* The size a decoder reads from a copy command: an absent size is 65536.
DecodedSize(bytes) ==
    LET read == ReadField(bytes, 1, bytes[1], 4..6, 4)
    IN IF read = 0 THEN 65536 ELSE read

\* C21: a Copy instruction of size 65536 is written with no size byte and
\* with bits 4-6 of the command byte clear, it is the only size of 1 to
\* 2^24-1 written with no size byte, and a decoder that reads an absent size
\* as 65536 recovers the size (and the offset) of every Copy written.
Thm_C21 ==
    (arg.fn = "write" /\ outcome.done) =>
        LET bytes == outcome.bytes
            cmd == bytes[1]
        IN /\ outcome.ins = Copy(arg.a, arg.b)
           /\ cmd >= 128
           /\ Len(bytes) = 1 + FieldBytes(cmd, 0..3) + FieldBytes(cmd, 4..6)
           /\ FieldBytes(cmd, 4..6) = 0 <=> arg.b = 65536
           /\ DecodedSize(bytes) = arg.b
           /\ ReadField(bytes, 1, cmd, 0..3, 0) = arg.a

Wit_C21 ==
    /\ arg.fn = "write" /\ outcome.done
    /\ arg.a = 256 /\ arg.b = 65536
    /\ outcome.bytes = <<130, 1>>

\* C22: DeltaInstructions::write emits, before any instruction byte, the
\* encoded size of the base object and then the encoded size of the new
\* object: the first two sizes read from a serialized delta are |base| and
\* |new|, in that order, and the instructions follow.
Thm_C22 ==
    phase = "encoded" =>
        LET first == read_size(encoded)
            rest == SubSeq(encoded, first.consumed + 1, Len(encoded))
            second == read_size(rest)
        IN /\ first.ok /\ first.value = ObjLen(base_object)
           /\ second.ok /\ second.value = ObjLen(new_object)
           /\ SubSeq(rest, second.consumed + 1, Len(rest))
                 = write_instructions(sink.instructions)

Wit_C22 ==
    /\ phase = "encoded"
    /\ ObjLen(base_object) = COPY_SPECIAL_SIZE + 1
    /\ ObjLen(new_object) = MAX_DATA_BYTES + 2
    /\ SubSeq(encoded, 1, 5) = <<129, 128, 4, 129, 1>>
    /\ Len(sink.instructions) >= 2

(***************************************************************************)
(* Further claims about the tiered cache.                                  *)
(***************************************************************************)

\* The get_or_fill call `rec` has read the fast tier.
Probed(rec) == rec.op = "get_or_fill" /\ rec.pc # "idle" /\ rec.result # "ErrCachelib"

\* The shared-tier gets of `rec` are joined and the fast tier back-filled.
Joined(rec) == rec.op = "get_or_fill" /\ rec.pc \in {"db", "mc_write", "done"}
                  /\ rec.result # "ErrCachelib"

\* C23 as stated: every shared-tier hit whose disposition is Cache(...) is
\* written into the fast tier during the same get_or_fill call, so an
\* immediately following get_or_fill for that key is a fast-tier hit and
\* does not probe the shared tier.
C23_Original ==
    \A c \in Callers :
        /\ Joined(call[c]) =>
              \A k \in McHits(call[c]) :
                  cache_determinator(call[c].mcVal[k]) # "Ignore" =>
                      k \in call[c].clWrites
        /\ Probed(call[c]) =>
              \A k \in call[c].keys :
                  (call[c].prevMc[k] # NoValue
                      /\ cache_determinator(call[c].prevMc[k]) # "Ignore") =>
                      /\ call[c].clVal[k] = call[c].prevMc[k]
                      /\ k \notin call[c].mcPending \cup call[c].mcProbed

\* C23 amended: every shared-tier hit whose disposition is Cache(NoTtl) is
\* handed to the fast tier during the same get_or_fill call (a failure of
\* that write is ignored), so when the write succeeded an immediately
\* following get_or_fill for that key is a fast-tier hit and does not probe
\* the shared tier; a hit whose disposition is Cache(Ttl) or Ignore is not
\* written to the fast tier, and the following call probes the shared tier
\* for it again.
Thm_C23 ==
    \A c \in Callers :
        /\ Joined(call[c]) =>
              \A k \in McHits(call[c]) :
                  IF cache_determinator(call[c].mcVal[k]) = "NoTtl"
                  THEN /\ k \in call[c].clWrites \cup call[c].clFailed
                       /\ (k \in call[c].clWrites /\ call[c].pc # "done")
                             => cachelib[k] = call[c].mcVal[k]
                  ELSE k \notin call[c].clWrites \cup call[c].clFailed
        /\ Probed(call[c]) =>
              \A k \in call[c].keys :
                  call[c].prevMc[k] # NoValue =>
                      IF k \in call[c].prevCl
                      THEN /\ cache_determinator(call[c].prevMc[k]) = "NoTtl"
                           /\ call[c].clVal[k] = call[c].prevMc[k]
                           /\ k \notin call[c].mcPending \cup call[c].mcProbed
                      ELSE /\ call[c].clVal[k] = NoValue
                           /\ k \in call[c].mcPending \cup call[c].mcProbed

Wit_C23 ==
    \E c \in Callers :
        /\ Probed(call[c]) /\ Returned(call[c]) /\ call[c].result = "Ok"
        /\ call[c].keys = {"key0", "key1"}
        /\ call[c].prevMc["key0"] # NoValue /\ call[c].prevMc["key1"] # NoValue
        /\ call[c].prevCl = {"key0", "key1"}
        /\ call[c].clVal = call[c].prevMc
        /\ call[c].mcGets = 0 /\ call[c].dbCalls = 0

\* C24: the TTL of the shared tier is never downgraded: a Cache(NoTtl) value
\* is written with set (no TTL), a Cache(Ttl(d)) value with set_with_ttl and
\* exactly d; no write built, spawned or awaited, and no entry a write left
\* in the shared tier, holds a Cache(Ttl(d)) value without its TTL.
Thm_C24 ==
    /\ \A w \in bg : w.ttl = ttl_of(deserialize(w.bytes))
    /\ \A c \in Callers :
          /\ \A w \in call[c].wr : w.ttl = ttl_of(deserialize(w.bytes))
          /\ Returned(call[c]) =>
                \A k \in call[c].mcWrites \ call[c].wrFailed :
                    ~spawn => memcache[k].ttl = ttl_of(Handled(call[c], k))
    /\ \A k \in Keys :
          deserialize(memcache[k].bytes) # NoValue =>
              memcache[k].ttl = ttl_of(deserialize(memcache[k].bytes))

Wit_C24 ==
    \E c \in Callers :
        /\ call[c].op = "get_or_fill" /\ Returned(call[c]) /\ ~spawn
        /\ call[c].mcWrites = {"key0", "key1"} /\ call[c].wrFailed = {}
        /\ cache_determinator(call[c].data["key0"]) = "Ttl"
        /\ cache_determinator(call[c].data["key1"]) = "NoTtl"
        /\ memcache["key0"] = McEntry(serialize(call[c].data["key0"]), 21600)
        /\ memcache["key1"] = McEntry(serialize(call[c].data["key1"]), 0)

\* The value the call `rec` holds for k when it fills the tiers: the pair
\* given to fill_cache, the shared-tier hit, or the store's entry.
Filled(rec, k) ==
    IF rec.op = "fill_cache" THEN rec.given[k]
    ELSE IF rec.mcVal[k] # NoValue THEN rec.mcVal[k]
    ELSE rec.data[k]

\* C25: a value whose disposition is Cache(Ttl(d)) is never written to the
\* fast tier, neither on store fill, on shared-tier back-fill nor by
\* fill_cache: set_cached is called for Cache(NoTtl) values only, and the
\* fast tier holds Cache(NoTtl) values only.
Thm_C25 ==
    /\ \A k \in Keys :
          cachelib[k] # NoValue => cache_determinator(cachelib[k]) = "NoTtl"
    /\ \A c \in Callers :
          \A k \in Keys :
              /\ k \in call[c].clWrites \cup call[c].clFailed =>
                    /\ Filled(call[c], k) # NoValue
                    /\ cache_determinator(Filled(call[c], k)) = "NoTtl"
              /\ (Filled(call[c], k) # NoValue
                    /\ cache_determinator(Filled(call[c], k)) = "Ttl") =>
                    k \notin call[c].clWrites \cup call[c].clFailed

\* A call has filled the tiers with a Cache(Ttl) value for key0, on the path
\* named, and the fast tier does not hold it.
TtlFill(c, path) ==
    /\ Returned(call[c]) /\ call[c].result = "Ok"
    /\ cache_determinator(Filled(call[c], "key0")) = "Ttl"
    /\ cachelib["key0"] = NoValue
    /\ "key0" \in call[c].mcWrites \/ path = "back-fill"
    /\ CASE path = "fill_cache" -> call[c].op = "fill_cache"
         [] path = "back-fill" -> call[c].op = "get_or_fill" /\ "key0" \in McHits(call[c])
         [] path = "store" -> call[c].op = "get_or_fill" /\ "key0" \in MapKeys(call[c].data)

Wit_C25 ==
    \E c \in Callers :
        /\ TtlFill(c, "back-fill")
        /\ "key1" \in call[c].clWrites

\* The state of a call before its shared-tier gets are joined: nothing is
\* reported, back-filled or asked of the store.
BeforeJoin(rec) ==
    /\ rec.reports = 0
    /\ rec.clWrites = {} /\ rec.clFailed = {}
    /\ rec.dbCalls = 0 /\ rec.dbArg = {} /\ rec.data = EmptyMap
    /\ rec.wr = {} /\ rec.mcWrites = {}

\* C26: within one get_or_fill call the phases are strictly ordered: the
\* shared-tier gets are issued only after the fast-tier probe, for the keys
\* it missed; while one of them is in flight nothing is back-filled and the
\* store is not asked; the fast tier is back-filled and get_from_db invoked
\* only when every get of the call has completed, in whatever order.
Thm_C26 ==
    \A c \in Callers :
        LET rec == call[c]
        IN rec.op = "get_or_fill" =>
             /\ (rec.mcPending # {} \/ rec.mcProbed # {}) =>
                   /\ rec.clGets = Cardinality(rec.keys)
                   /\ rec.mcPending \cup rec.mcProbed = rec.keys \ FromCl(rec)
             /\ rec.mcPending \cap rec.mcProbed = {}
             /\ rec.mcGets = Cardinality(rec.mcProbed)
             /\ (rec.mcPending # {} \/ rec.pc = "mc_get") =>
                   rec.pc = "mc_get" /\ BeforeJoin(rec)
             /\ (~BeforeJoin(rec) \/ rec.pc \in {"db", "mc_write"}) =>
                   /\ rec.mcPending = {}
                   /\ rec.mcProbed = rec.keys \ FromCl(rec)
                   /\ rec.reports = Cardinality(rec.mcProbed)

Wit_C26 ==
    \E c \in Callers :
        /\ call[c].op = "get_or_fill" /\ call[c].pc = "db"
        /\ call[c].keys = {"key0", "key1"}
        /\ call[c].mcProbed = {"key0", "key1"} /\ call[c].mcPending = {}
        /\ call[c].mcRes["key0"] = "Hit" /\ call[c].mcRes["key1"] = "Missing"
        /\ call[c].clWrites = {"key0"}
        /\ call[c].dbArg = {"key1"} /\ call[c].dbCalls = 0

McTags == {"Hit", "Missing", "MemcacheInternal", "Deserialization"}

\* C27: each shared-tier probe has exactly one outcome, one of the four tags
\* Hit, Missing, MemcacheInternal, Deserialization (an absent value gives
\* Missing, undecodable bytes give Deserialization, decodable bytes give Hit,
\* a failed get gives MemcacheInternal), and each is reported once when the
\* gets are joined: the reports of a get_or_fill call are as many as the
\* keys that missed the fast tier.
Thm_C27 ==
    \A c \in Callers :
        LET rec == call[c]
        IN rec.op = "get_or_fill" =>
             /\ \A k \in Keys \ rec.mcProbed : rec.mcRes[k] = "none"
             /\ \A k \in rec.mcProbed :
                   /\ rec.mcRes[k] \in McTags
                   /\ rec.mcRes[k] = "Missing" => rec.mcSaw[k] = <<>>
                   /\ rec.mcRes[k] = "Deserialization" =>
                         rec.mcSaw[k] # <<>> /\ deserialize(rec.mcSaw[k]) = NoValue
                   /\ rec.mcRes[k] = "Hit" =>
                         /\ deserialize(rec.mcSaw[k]) # NoValue
                         /\ rec.mcVal[k] = deserialize(rec.mcSaw[k])
                   /\ rec.mcRes[k] # "Hit" => rec.mcVal[k] = NoValue
             /\ rec.reports = IF Joined(rec)
                              THEN Cardinality(rec.keys \ FromCl(rec))
                              ELSE 0

Wit_C27 ==
    \E c \in Callers :
        /\ Joined(call[c])
        /\ call[c].keys = {"key0", "key1"} /\ FromCl(call[c]) = {}
        /\ call[c].mcRes["key0"] = "Deserialization"
        /\ call[c].mcRes["key1"] = "MemcacheInternal"
        /\ call[c].reports = 2

(***************************************************************************)
(* Further claims about the delta generator.                               *)
(***************************************************************************)

\* The Copy instructions of a program, in order.
IsCopy(ins) == ins.type = "Copy"
Copies(instructions) == SelectSeq(instructions, IsCopy)

\* C28: whenever generate succeeds, every Copy instruction of the program has
\* its range [base_offset, base_offset + size) inside the base object, and
\* each Copy begins where the one before it ends or later; this for any
\* changes with start <= end, as a faulty diff engine could report them.
Thm_C28 ==
    (phase = "generated" /\ into_result(sink) = "Ok") =>
        LET copies == Copies(sink.instructions)
        IN /\ \A i \in 1..Len(copies) :
                 /\ copies[i].base_offset >= 0
                 /\ copies[i].size >= 1
                 /\ copies[i].base_offset + copies[i].size <= ObjLen(base_object)
           /\ \A i \in 1..(Len(copies) - 1) :
                 copies[i].base_offset + copies[i].size <= copies[i + 1].base_offset

Wit_C28 ==
    /\ phase = "generated" /\ into_result(sink) = "Ok"
    /\ reported.count >= 2
    /\ Len(sink.instructions) >= 3
    /\ sink.instructions[1] = Copy(0, 1)
    /\ sink.instructions[2].type = "Data"
    /\ LET copies == Copies(sink.instructions)
       IN /\ Len(copies) >= 2
          /\ copies[Len(copies)].base_offset + copies[Len(copies)].size
                = ObjLen(base_object)
          /\ copies[Len(copies)].size = MAX_COPY_BYTES

\* The instructions a step appends to the program of the sink.
Emitted ==
    SubSeq(sink'.instructions, Len(sink.instructions) + 1, Len(sink'.instructions))

RECURSIVE LeadingCopies(_)
\* How many Copy instructions a sequence of instructions begins with.
LeadingCopies(instructions) ==
    IF instructions # <<>> /\ IsCopy(instructions[1])
    THEN 1 + LeadingCopies(Tail(instructions))
    ELSE 0

\* `copies` are consecutive Copy instructions that cover base[from..to),
\* from < to, once and in order: each begins where the one before ends, none
\* is larger than MAX_COPY_BYTES, all but the last are of that size.
Covers(copies, from, to) ==
    /\ Len(copies) >= 1
    /\ \A i \in 1..Len(copies) :
          /\ IsCopy(copies[i])
          /\ copies[i].size >= 1 /\ copies[i].size <= MAX_COPY_BYTES
          /\ copies[i].base_offset =
                IF i = 1 THEN from
                ELSE copies[i - 1].base_offset + copies[i - 1].size
          /\ i < Len(copies) => copies[i].size = MAX_COPY_BYTES
    /\ copies[Len(copies)].base_offset + copies[Len(copies)].size = to

\* What the step appends to the program, for a change that begins at
\* before.start with the cursor at `processed`: the Copy instructions of the
\* gap, if there is one, and after them nothing but Data instructions.
GapFilled(emitted, processed, before) ==
    LET n == LeadingCopies(emitted)
    IN /\ \A i \in (n + 1)..Len(emitted) : emitted[i].type = "Data"
       /\ IF before[1] > processed
          THEN Covers(SubSeq(emitted, 1, n), processed, before[1])
          ELSE n = 0

\* C29: gap fill.  A change that begins past the cursor of a valid sink makes
\* the sink append, before the Data instructions of the change, consecutive
\* Copy instructions that cover [processed, before.start) once and in order,
\* each of at most 2^24-1 bytes and all but the last of exactly 2^24-1; a
\* change that begins at the cursor appends no Copy instruction.  Either way
\* the program built so far is kept and the sink stays valid.
Thm_C29 ==
    [][\A before \in BeforeRanges(base_object), after \in AfterRanges(new_object) :
          (/\ sink.valid
           /\ before[1] >= sink.processed_till
           /\ ReportChange(before, after))
          => /\ sink'.valid
             /\ Len(sink'.instructions) >= Len(sink.instructions)
             /\ SubSeq(sink'.instructions, 1, Len(sink.instructions)) = sink.instructions
             /\ GapFilled(Emitted, sink.processed_till, before)]_vars

Wit_C29 ==
    /\ phase = "diff" /\ sink.valid
    /\ reported.count = 2
    /\ sink.instructions =
          <<Copy(0, MAX_COPY_BYTES), Copy(MAX_COPY_BYTES, 1),
            Data(<<<<98, 1>>>>), Data(<<<<98, 1>>>>)>>

RECURSIVE Payload(_)
\* The bytes a sequence of Data instructions carries, one after the other.
Payload(instructions) ==
    IF instructions = <<>> THEN <<>>
    ELSE Concat(instructions[1].bytes, Payload(Tail(instructions)))

\* What the step appends to the program after the Copy instructions of the
\* gap, for a change of new[after.start..after.end): Data instructions that
\* carry these bytes in order, none empty or larger than MAX_DATA_BYTES, all
\* but the last of that size; none for an empty range.
ChangeEmitted(emitted, new, after) ==
    LET n == LeadingCopies(emitted)
        datas == SubSeq(emitted, n + 1, Len(emitted))
    IN /\ \A i \in 1..Len(datas) :
             /\ datas[i].type = "Data"
             /\ ObjLen(datas[i].bytes) >= 1
             /\ ObjLen(datas[i].bytes) <= MAX_DATA_BYTES
             /\ i < Len(datas) => ObjLen(datas[i].bytes) = MAX_DATA_BYTES
       /\ Payload(datas) = Slice(new, after[1], after[2])
       /\ after[1] = after[2] => datas = <<>>

\* C30: change emission.  A change with the after range [c, d) makes a valid
\* sink append consecutive Data instructions whose bytes, one after the
\* other, are exactly new[c..d), each of at most 127 bytes and all but the
\* last of exactly 127; a change with an empty after range (a pure deletion)
\* appends no Data instruction.
Thm_C30 ==
    [][\A before \in Ranges(base_object), after \in Ranges(new_object) :
          (/\ sink.valid
           /\ before[1] >= sink.processed_till
           /\ ProcessChange(before, after))
          => /\ sink'.valid
             /\ SubSeq(sink'.instructions, 1, Len(sink.instructions)) = sink.instructions
             /\ ChangeEmitted(Emitted, new_object, after)]_vars

Wit_C30 ==
    /\ phase = "diff" /\ sink.valid
    /\ engine = <<0, 2 * MAX_DATA_BYTES + 2>>
    /\ sink.instructions =
          <<Data(<<<<97, MAX_DATA_BYTES>>>>),
            Data(<<<<97, 1>>, <<98, MAX_DATA_BYTES - 1>>>>),
            Data(<<<<98, 2>>>>)>>

\* C31: finalization.  finish on a valid sink whose cursor lies before the
\* end of the base object appends Copy instructions that cover exactly
\* [processed, |base|), split as the copies of a gap are, and succeeds; with
\* the cursor at the end of the base object it succeeds and leaves the
\* program as it is; with the cursor past the end it returns an error, so no
\* program.
Thm_C31 ==
    [][(sink.valid /\ EngineFinish) =>
          LET base_obj_len == ObjLen(base_object)
              processed_till == sink.processed_till
          IN /\ processed_till < base_obj_len =>
                   /\ into_result(sink') = "Ok"
                   /\ SubSeq(sink'.instructions, 1, Len(sink.instructions))
                         = sink.instructions
                   /\ Covers(Emitted, processed_till, base_obj_len)
             /\ processed_till = base_obj_len =>
                   /\ into_result(sink') = "Ok"
                   /\ sink'.instructions = sink.instructions
             /\ processed_till > base_obj_len => into_result(sink') = "Err"]_vars

Wit_C31 ==
    /\ phase = "generated" /\ into_result(sink) = "Ok"
    /\ reported.count = 1
    /\ sink.instructions =
          <<Data(<<<<98, 1>>>>), Copy(0, MAX_COPY_BYTES), Copy(MAX_COPY_BYTES, 1)>>

\* C32: the cursor processed_till is 0 when generate begins; a change a
\* valid sink accepts (it does not begin before the cursor) leaves the
\* cursor at before.end; no step of a sink that stays valid moves the
\* cursor back; and finish returns a program only with the cursor at the
\* end of the base object.
Thm_C32 ==
    /\ sink.processed_till = 0
    /\ [][/\ \A before \in BeforeRanges(base_object), after \in AfterRanges(new_object) :
               (/\ sink.valid
                /\ before[1] >= sink.processed_till
                /\ ReportChange(before, after))
               => sink'.valid /\ sink'.processed_till = before[2]
          /\ (sink.valid /\ sink'.valid) =>
                sink'.processed_till >= sink.processed_till
          /\ (EngineFinish /\ into_result(sink') = "Ok") =>
                sink'.processed_till = ObjLen(base_object)]_vars

Wit_C32 ==
    /\ phase = "generated" /\ into_result(sink) = "Ok"
    /\ reported.count = 2
    /\ sink.processed_till = MAX_COPY_BYTES + 1
    /\ sink.instructions =
          <<Copy(0, 1), Data(<<<<98, 1>>>>), Copy(1, MAX_COPY_BYTES)>>

(***************************************************************************)
(* Further claims about the serialized form.                               *)
(***************************************************************************)

\* Byte i (0 the least significant) of n.
LeByte(n, i) == (n \div (256 ^ i)) % 256

\* The nonzero ones among the `count` least significant bytes of n, least
\* significant first.
NonZeroBytes(n, count) == SelectSeq([i \in 1..count |-> LeByte(n, i - 1)], NonZero)

\* The serialized Copy(offset, size), `wire` being the size as it is encoded:
\* a command byte with bit 7 set, bits 0-3 flagging the nonzero bytes of the
\* offset and bits 4-6 those of `wire`, then only these bytes in order, at
\* most 8 bytes in all; and the decoder reads the offset and the size back.
CopyWritten(bytes, offset, size, wire) ==
    LET cmd == bytes[1]
    IN /\ Bit(cmd, 7)
       /\ \A i \in 0..3 : Bit(cmd, i) <=> LeByte(offset, i) # 0
       /\ \A i \in 0..2 : Bit(cmd, 4 + i) <=> LeByte(wire, i) # 0
       /\ SubSeq(bytes, 2, Len(bytes)) = NonZeroBytes(offset, 4) \o NonZeroBytes(wire, 3)
       /\ Len(bytes) <= 8
       /\ ReadField(bytes, 1, cmd, 0..3, 0) = offset
       /\ DecodedSize(bytes) = size

\* C33 as stated: the flags and the bytes written are those of the size
\* itself, for every size of 1 to 2^24-1.
C33_Original ==
    (arg.fn = "write" /\ outcome.done) =>
        CopyWritten(outcome.bytes, arg.a, arg.b, arg.b)

\* C33: a Copy built by from_copy is written as a command byte with bit 7 set
\* whose bits 0-3 and 4-6 flag exactly the nonzero little-endian bytes of the
\* offset and of the size, followed by only those bytes in order, at most 8
\* bytes in all, and the decoder recovers the offset and the size; the size
\* 65536 is written as the size 0, with no size byte and no size flag.
Thm_C33 ==
    (arg.fn = "write" /\ outcome.done) =>
        /\ outcome.ins = Copy(arg.a, arg.b)
        /\ CopyWritten(outcome.bytes, arg.a, arg.b,
                       IF arg.b = COPY_SPECIAL_SIZE THEN 0 ELSE arg.b)

Wit_C33 ==
    /\ arg.fn = "write" /\ outcome.done
    /\ arg.a = 16909060 /\ arg.b = MAX_COPY_BYTES
    /\ outcome.bytes = <<255, 4, 3, 2, 1, 255, 255, 255>>

\* C34: write_size writes a little-endian base-128 sequence: at least one
\* byte, every byte but the last with its high bit set and the last with it
\* clear, byte i carrying in its low 7 bits the i-th group of 7 bits of the
\* size, least significant first; zero is the single byte 0x00, and for a
\* size above zero the last byte is not zero.
Thm_C34 ==
    (arg.fn = "write_size" /\ outcome.done) =>
        LET bytes == outcome.bytes
            n == Len(bytes)
        IN /\ n >= 1
           /\ \A i \in 1..n :
                 /\ bytes[i] \in 0..255
                 /\ (bytes[i] >= 128) <=> (i < n)
                 /\ bytes[i] % 128 = (arg.a \div (128 ^ (i - 1))) % 128
           /\ arg.a = 0 => bytes = <<0>>
           /\ arg.a > 0 => bytes[n] # 0

Wit_C34 ==
    /\ arg.fn = "write_size" /\ outcome.done
    /\ arg.a = 2147483647
    /\ outcome.bytes = <<255, 255, 255, 255, 7>>

RECURSIVE Flatten(_)
\* The bytes `out` holds after the calls `calls` of write_all.
Flatten(calls) == IF calls = <<>> THEN <<>> ELSE Head(calls) \o Flatten(Tail(calls))

\* C35: DeltaInstruction::write hands the bytes of an instruction to the
\* output in one write, so write_instructions makes as many writes as the
\* program has instructions, in the order of the program, the i-th write
\* carrying all the bytes of the i-th instruction and nothing else.
Thm_C35 ==
    phase \in {"written", "applied"} =>
        /\ Len(out_writes) = Len(sink.instructions)
        /\ \A i \in 1..Len(out_writes) :
              LET ins == sink.instructions[i]
                  buffer == out_writes[i]
              IN IF ins.type = "Data"
                 THEN /\ Len(buffer) = 1 + ObjLen(ins.bytes)
                      /\ buffer[1] = ObjLen(ins.bytes)
                      /\ SubSeq(buffer, 2, Len(buffer)) = Expand(ins.bytes)
                 ELSE /\ Bit(buffer[1], 7)
                      /\ Len(buffer) = 1 + FieldBytes(buffer[1], 0..6)
                      /\ ReadField(buffer, 1, buffer[1], 0..3, 0) = ins.base_offset
                      /\ DecodedSize(buffer) = ins.size
        /\ Flatten(out_writes) = encoded

Wit_C35 ==
    /\ phase = "written"
    /\ Len(sink.instructions) = 4
    /\ sink.instructions[1] = Copy(0, 1)
    /\ sink.instructions[2].type = "Data"
    /\ ObjLen(sink.instructions[2].bytes) = MAX_DATA_BYTES
    /\ sink.instructions[3].type = "Data"
    /\ sink.instructions[4].type = "Copy"
    /\ Len(out_writes) = 4
    /\ out_writes[1] = <<128 + 16, 1>>
    /\ Len(out_writes[2]) = MAX_DATA_BYTES + 1

(***************************************************************************)
(* Further claims about the tiered cache.                                  *)
(***************************************************************************)

\* C36: the store handing back only keys it was asked for, the lookup in
\* key_mapping never fails, so no call of get_or_fill panics on it, and the
\* keys of the map under construction, hence of the map returned, are among
\* the keys requested.
Thm_C36 ==
    \A c \in Callers :
        call[c].op = "get_or_fill" =>
            /\ MapKeys(call[c].data) \subseteq call[c].dbArg
            /\ call[c].result # "Panic"
            /\ MapKeys(call[c].ret) \subseteq call[c].keys

Wit_C36 ==
    \E c \in Callers :
        /\ call[c].op = "get_or_fill" /\ Returned(call[c]) /\ call[c].result = "Ok"
        /\ call[c].keys = Keys
        /\ call[c].dbCalls = 1
        /\ call[c].dbArg = Keys
        /\ MapKeys(call[c].data) = {"key1"}
        /\ MapKeys(call[c].ret) = {"key1"}

\* C37: cache coherence.  The store never changing, serialize and
\* deserialize being inverse to each other, and the tiers touched only by
\* get_or_fill, by fill_cache given the store's entries, and by evictions:
\* every entity the fast tier holds under a key, and every entity the bytes
\* of the shared tier under a key decode to, is the store's entity of that
\* key, and every entry of a map get_or_fill builds or returns is the
\* store's.
Thm_C37 ==
    /\ \A v \in Values : deserialize(serialize(v)) = v
    /\ \A k \in Keys :
          /\ cachelib[k] # NoValue => cachelib[k] = db[k]
          /\ memcache[k] # NoEntry =>
                /\ deserialize(memcache[k].bytes) # NoValue
                /\ deserialize(memcache[k].bytes) = db[k]
          /\ \A c \in Callers :
                (call[c].op = "get_or_fill" /\ call[c].ret[k] # NoValue) =>
                    call[c].ret[k] = db[k]

Wit_C37 ==
    \E c \in Callers :
        /\ call[c].op = "get_or_fill" /\ Returned(call[c]) /\ call[c].result = "Ok"
        /\ call[c].keys = Keys
        /\ call[c].ret = db
        /\ call[c].clVal["key1"] = "e1"
        /\ call[c].mcVal["key0"] = "e0"
        /\ cachelib = db
        /\ memcache["key0"].bytes = serialize("e0")

\* A call of get_or_fill that has failed on the backing store.
StoreFailed(rec) ==
    rec.op = "get_or_fill" /\ Returned(rec) /\ rec.result = "ErrStore"

\* C38: a get_or_fill call that fails on the backing store has no store
\* data and has written none to a tier: it has built no shared-tier write,
\* and its fast-tier writes are the back-fills of its shared-tier hits
\* cached without a TTL, made before the store was asked; these stay in the
\* fast tier when the call returns the error.  No step of such a call
\* changes the shared tier or hands a write to it, and the step on which
\* the store fails changes neither tier.
Thm_C38 ==
    /\ [](\A c \in Callers :
            StoreFailed(call[c]) =>
                /\ call[c].data = EmptyMap
                /\ call[c].mcWrites = {} /\ call[c].wr = {}
                /\ call[c].clWrites \cup call[c].clFailed
                      = {k \in MapKeys(call[c].mcVal) :
                            cache_determinator(call[c].mcVal[k]) = "NoTtl"}
                /\ \A k \in call[c].clWrites : cachelib[k] = call[c].mcVal[k])
    /\ [][\A c \in Callers :
            (/\ call'[c] # call[c]
             /\ call'[c].op = "get_or_fill"
             /\ call'[c].pc \in {"mc_get", "db"} \/ call'[c].result = "ErrStore")
            => /\ memcache' = memcache /\ bg' = bg
               /\ call'[c].result = "ErrStore" => cachelib' = cachelib]_vars

Wit_C38 ==
    \E c \in Callers :
        /\ StoreFailed(call[c])
        /\ call[c].keys = Keys
        /\ call[c].dbCalls = 1 /\ call[c].dbArg = {"key1"}
        /\ call[c].mcVal["key0"] = "e0"
        /\ call[c].clWrites = {"key0"}
        /\ cachelib["key0"] = "e0" /\ cachelib["key1"] = NoValue
        /\ call[c].ret = EmptyMap

\* C39: requests are not coalesced.  Whatever another call is doing, a call
\* of get_or_fill that found a key in neither tier asks the store for it
\* itself, once, and a call that succeeds returns the store's entity for the
\* key; the tiers hold for the key nothing or the store's entity.  So two
\* calls for the same key that overlap may both ask the store, and both
\* return its entity and leave it in the tiers.
Thm_C39 ==
    /\ \A c \in Callers :
          (call[c].op = "get_or_fill" /\ Returned(call[c]) /\ call[c].result = "Ok") =>
              \A k \in call[c].keys :
                  /\ (call[c].clVal[k] = NoValue /\ call[c].mcVal[k] = NoValue) =>
                        call[c].dbCalls = 1 /\ k \in call[c].dbArg
                  /\ call[c].ret[k] = db[k]
    /\ \A k \in Keys :
          /\ cachelib[k] # NoValue => cachelib[k] = db[k]
          /\ memcache[k] # NoEntry => memcache[k] = Written(db[k])

Wit_C39 ==
    /\ \A c \in Callers :
          /\ call[c].op = "get_or_fill" /\ Returned(call[c]) /\ call[c].result = "Ok"
          /\ call[c].keys = RaceKeys
          /\ call[c].clVal["key1"] = NoValue /\ call[c].mcVal["key1"] = NoValue
          /\ call[c].dbCalls = 1 /\ call[c].dbArg = RaceKeys
          /\ call[c].clWrites = RaceKeys /\ call[c].clFailed = {}
          /\ call[c].mcWrites = RaceKeys /\ call[c].wrFailed = {}
          /\ call[c].ret["key1"] = db["key1"]
    /\ cachelib["key1"] = db["key1"]
    /\ memcache["key1"] = Written(db["key1"])

(***************************************************************************)
(* Claims about the rate limiter.                                          *)
(***************************************************************************)

\* The first limit at which the loop found the counter over its threshold,
\* the limit being for the requested metric and applying to the client; 0
\* if there is none.
Decider(rec) ==
    IF \E i \in 1..Len(rec.visits) : rec.visits[i] = "throttled"
    THEN CHOOSE i \in 1..Len(rec.visits) :
            /\ rec.visits[i] = "throttled"
            /\ \A j \in 1..(i - 1) : rec.visits[j] # "throttled"
    ELSE 0

\* C40: check_rate_limit returns Fail(RateLimitedMetric(metric, window))
\* when a limit for the requested metric applies to the client,
\* should_throttle reports true for it and its status is Enforced; it
\* returns Pass when no applicable limit is throttled, or the throttled
\* limit is Disabled or Tracked.
C40_Claim ==
    (check.pc = "done" /\ check.result \in {"Pass", "Fail"}) =>
        LET d == Decider(check)
        IN IF d # 0 /\ rate_limits[d].status = "Enforced"
           THEN /\ check.result = "Fail"
                /\ check.reason = RateLimitedMetric(check.metric, rate_limits[d].window)
           ELSE check.result = "Pass"


====
